---- MODULE Spec2Model ----
(***************************************************************************)
(* Verification model of the card price pipeline (grading_api):            *)
(*   - ScrapeLog.complete / ScrapeLog.fail            (models.py)          *)
(*   - the orchestrator actions of PokemonCardViewSet (views.py)           *)
(*   - AsyncRateLimiter, the eBay call limiter, PriceCache (scraper.py)    *)
(* Each component has its own specification over the shared variables.     *)
(***************************************************************************)
EXTENDS Integers, Sequences, FiniteSets, TLC

VARIABLES
    now,          \* wall clock read by timezone.now() (ScrapeLog rows)
    tlog,         \* one ScrapeLog row driven directly through complete()/fail()
    lastCall,     \* the last finalizing call made on tlog, with its arguments
    pc,           \* per request: position in its view coroutine
    kind,         \* per request: which action serves it (scrape / refresh / bulk)
    req,          \* per request: its query parameters
    scrape_log,   \* per request: the ScrapeLog row it created (NoLog before)
    request_semaphore, \* per request: _request_semaphore of its viewset instance
    profit_data,  \* per request: number of cards scraper.main returned
    idx,          \* per request: index of the save loop
    saved,        \* per request: _save_card_to_db calls that returned a row
    upserts,      \* per request: _save_card_to_db calls made
    main_raised,  \* per request: scraper.main raised in this request
    response,     \* per request: HTTP status answered (0 = none yet)
    respCache,    \* django cache: keys of cached scrape_and_save responses
    task,         \* bulk request: state of each scrape_and_save_set task
    total_attempted, \* bulk request: nonlocal counter
    total_updated,   \* bulk request: nonlocal counter
    fpc,          \* per marketplace fetch: position in fetch_tcgplayer_data
    language,     \* per marketplace fetch: card_details.language
    site,         \* per marketplace fetch: whether its page.goto calls succeed
    rarity_idx,   \* per marketplace fetch: index in the language's rarity list
    attempt,      \* per marketplace fetch: attempt of the retry loop
    timer,        \* per marketplace fetch: time left of its current asyncio.sleep
    limiter_value, \* per marketplace fetch: semaphore._value of its AsyncRateLimiter
    playwright_sem, \* module-level playwright_sem._value
    win_left,     \* observed 60-second window: time left (-1 = not opened)
    win_gotos,    \* page.goto calls started inside the observed window
    eb_elapsed,   \* eBay limiter: clock() - last_reset, saturated at the period
    num_calls,    \* eBay limiter: num_calls of the limits decorator
    eb_sleep,     \* eBay limiter: time left of sleep_and_retry's time.sleep
    eb_win_left,  \* observed 60-second window: time left (-1 = not opened)
    eb_win_calls, \* eBay requests issued inside the observed window
    price_cache,  \* PriceCache.cache: key -> (data, timestamp)
    cache_clock,  \* datetime.now() read by PriceCache, in hours
    written,      \* per key: the last set(key, v) made, with its time
    lastOp,       \* the last PriceCache operation and what it returned
    cache_file,   \* price_cache.json: whether it exists, and its content
    at_save,      \* PriceCache.cache as it was when save_cache last ran
    prices,       \* calculate_average_price: its argument (a list, sorted in place)
    estimate,     \* calculate_average_price: what it returned
    est_done,     \* calculate_average_price: whether it has been called
    listings,     \* process_card_batch: the listings of a marketplace result
    b_pc,         \* process_card_batch: position in the reconciliation loop
    b_idx,        \* process_card_batch: index of the listing being reconciled
    ebay_calls,   \* the calls of get_ebay_psa10_price_async made, in order
    all_price_data, \* process_card_batch: the cards collected so far
    p_pc,         \* one fetch_tcgplayer_data call: position in the coroutine
    p_language,   \* one fetch_tcgplayer_data call: card_details.language
    p_rarity,     \* one fetch_tcgplayer_data call: index of the rarity loop
    p_attempt,    \* one fetch_tcgplayer_data call: attempt of the retry loop
    page_state,   \* the page of that call: "none", "open" or "closed"
    gotos,        \* per rarity index: page.goto calls made
    rarity_result, \* per rarity index: how its last attempt ended
    all_card_data, \* rarity indexes whose listings were collected
    p_exc,        \* the exception that left fetch_tcgplayer_data, if any
    section,      \* per fetch invocation: before, inside or after its page section
    card_element, \* extract_card_data: the page element it is given
    card_query,   \* extract_card_data: name and language of the query, the rarity
    card_data,    \* extract_card_data: what it returned
    extracted,    \* extract_card_data: whether it has been called
    cards,        \* the PokemonCard table: its rows
    stub,         \* detailed request: what the fetchers below scraper.main answer
    q_pc,         \* detailed request: position in its view coroutine
    q_count,      \* detailed requests that have arrived
    q_req,        \* detailed request: its parameters (and the card of a refresh)
    q_log,        \* detailed request: the ScrapeLog row it created (NoLog before)
    q_invoked,    \* detailed request: scraper.main was called
    q_results,    \* detailed request: the cards scraper.main returned
    q_idx,        \* detailed request: index of the save loop
    q_saved,      \* detailed request: len(saved_cards)
    q_upserts,    \* detailed request: the _save_card_to_db calls made, in order
    q_response,   \* detailed request: the response answered
    q_cache,      \* django cache: the cached scrape_and_save responses
    cards_before, \* the table as the detailed request found it
    q_prev,       \* the request answered before the detailed request
    w_pc,         \* per concurrent upsert: position in update_or_create
    w_card_dict,  \* per concurrent upsert: the dict it saves
    w_target,     \* per concurrent upsert: id of the row its SELECT found
    w_outcome,    \* per concurrent upsert: how it ended
    m_pc,         \* per run of scraper.main sharing price_cache: its position
    card_details_list, \* process_card_batch: the queries of the batch
    g_pc,         \* process_card_batch: position of the call
    g_fetch,      \* per query: how its fetch_tcgplayer_data task ended
    g_order,      \* the positions of the tasks in the order they ended
    tcg_results,  \* what asyncio.gather returned
    g_i,          \* position of the loop over zip(card_details_list, tcg_results)
    g_logged      \* the names logged as failed, in order

logVars == <<now, tlog, lastCall>>

fetchVars == <<fpc, language, site, rarity_idx, attempt, timer, limiter_value,
               playwright_sem, win_left, win_gotos>>

ebayVars == <<eb_elapsed, num_calls, eb_sleep, eb_win_left, eb_win_calls>>

cacheVars == <<price_cache, cache_clock, written, lastOp>>

runVars == <<pc, kind, req, scrape_log, request_semaphore, profit_data, idx,
             saved, upserts, main_raised, response, respCache, task,
             total_attempted, total_updated>>

persistVars == <<cache_file, at_save>>

\* The variables of the components that follow the PriceCache.
priceVars == <<prices, estimate, est_done>>

batchVars == <<listings, b_pc, b_idx, ebay_calls, all_price_data>>

pageVars == <<p_pc, p_language, p_rarity, p_attempt, page_state, gotos,
              rarity_result, all_card_data, p_exc>>

semVars == <<section>>

extractVars == <<card_element, card_query, card_data, extracted>>

storeVars == <<cards>>

requestVars == <<stub, q_pc, q_count, q_req, q_log, q_invoked, q_results, q_idx,
                 q_saved, q_upserts, q_response, q_cache, cards_before, q_prev>>

writerVars == <<w_pc, w_card_dict, w_target, w_outcome>>

mainVars == <<m_pc>>

gatherVars == <<card_details_list, g_pc, g_fetch, g_order, tcg_results, g_i,
                g_logged>>

lateVars == <<storeVars, requestVars, writerVars, mainVars, gatherVars>>

extVars == <<persistVars, priceVars, batchVars, pageVars, semVars, extractVars,
             lateVars>>

vars == <<logVars, runVars, fetchVars, ebayVars, cacheVars, extVars>>

\* What each component leaves alone.
outsideLog == <<runVars, fetchVars, ebayVars, cacheVars, extVars>>
outsideRun == <<tlog, lastCall, fetchVars, ebayVars, cacheVars, extVars>>
outsideFetch == <<logVars, runVars, ebayVars, cacheVars, extVars>>
outsideEbay == <<logVars, runVars, fetchVars, cacheVars, extVars>>
outsideCache == <<logVars, runVars, fetchVars, ebayVars, extVars>>
baseVars == <<logVars, runVars, fetchVars, ebayVars>>
outsidePersist == <<baseVars, priceVars, batchVars, pageVars, semVars, extractVars,
    lateVars>>
outsidePrice == <<baseVars, cacheVars, persistVars, batchVars, pageVars, semVars,
                  extractVars,
    lateVars>>
outsideBatch == <<baseVars, cacheVars, persistVars, priceVars, pageVars, semVars,
                  extractVars,
    lateVars>>
outsideExtract == <<baseVars, cacheVars, persistVars, priceVars, batchVars, pageVars,
                    semVars,
    lateVars>>
\* One fetch shares playwright_sem with the marketplace fetches above.
fetchVarsButSem == <<fpc, language, site, rarity_idx, attempt, timer,
                     limiter_value, win_left, win_gotos>>
outsidePage == <<logVars, runVars, ebayVars, cacheVars, persistVars, priceVars,
                 batchVars, semVars, extractVars, fetchVarsButSem,
    lateVars>>
outsideRequest == <<baseVars, cacheVars, persistVars, priceVars, batchVars, pageVars,
                    semVars, extractVars, writerVars, mainVars, gatherVars>>
outsideWriter == <<baseVars, cacheVars, persistVars, priceVars, batchVars, pageVars,
                   semVars, extractVars, requestVars, mainVars, gatherVars>>
outsideMain == <<baseVars, priceVars, batchVars, pageVars, semVars, extractVars,
                 storeVars, requestVars, writerVars, gatherVars>>
outsideGather == <<baseVars, cacheVars, persistVars, priceVars, pageVars, semVars,
                   extractVars, storeVars, requestVars, writerVars, mainVars>>
outsideSem == <<logVars, runVars, ebayVars, cacheVars, persistVars, priceVars,
                batchVars, pageVars, extractVars, fetchVarsButSem,
    lateVars>>

-----------------------------------------------------------------------------
(* Bounds of the model                                                     *)
MaxTime == 3      \* the clock stops advancing here
MaxCount == 2     \* largest count passed to complete() in the ScrapeLog spec
NumRuns == 2      \* requests served (concurrently) by the orchestrator
MaxCards == 2     \* most cards one scraper.main call returns
NumSets == 2      \* set tasks of one bulk run (the code has 9 + 11 sets)
NumFetch == 3     \* concurrent fetch_tcgplayer_data calls
EbayStepSecs == 20     \* largest step of the clock of the eBay limiter spec
CacheStepHours == 12   \* step of the clock of the PriceCache spec
MaxCacheHours == 48    \* the PriceCache clock stops advancing here
MantissaBits == 7      \* precision of the floating-point numbers (Python: 53)
MaxPrices == 5         \* longest list passed to calculate_average_price
MaxListings == 2       \* most listings reconciled by one process_card_batch
NumInvocations == 11   \* fetch_tcgplayer_data invocations alive in the event loop
NumRequests == 2
NumWriters == 2
NumQueries == 2

-----------------------------------------------------------------------------
(* ScrapeLog (models.py)                                                   *)

None == "None"

IN_PROGRESS == "in_progress"
COMPLETED == "completed"
FAILED == "failed"
PARTIAL == "partial"

Terminal == {COMPLETED, FAILED, PARTIAL}

\* No row yet (before ScrapeLog.objects.create).
NoLog == [status |-> None, started_at |-> -1, completed_at |-> -1,
          total_cards_attempted |-> 0, total_cards_updated |-> 0,
          total_cards_failed |-> 0, error_message |-> None]

\* ScrapeLog.objects.create(user=...): field defaults, started_at auto_now_add.
CreateLog(t) ==
    [status |-> IN_PROGRESS, started_at |-> t, completed_at |-> -1,
     total_cards_attempted |-> 0, total_cards_updated |-> 0,
     total_cards_failed |-> 0, error_message |-> None]

\* complete() without the partial branch.
completeNoPartial(log, attempted, updated, failedCnt, t) ==
    [log EXCEPT !.completed_at = t,
                !.status = COMPLETED,
                !.total_cards_attempted = attempted,
                !.total_cards_updated = updated,
                !.total_cards_failed = failedCnt]

\* ScrapeLog.complete(total_cards_attempted, total_cards_updated, total_cards_failed)
complete(log, attempted, updated, failedCnt, t) ==
    [log EXCEPT !.completed_at = t,
                !.status = IF failedCnt > 0 THEN PARTIAL ELSE COMPLETED,
                !.total_cards_attempted = attempted,
                !.total_cards_updated = updated,
                !.total_cards_failed = failedCnt]

\* ScrapeLog.fail(error_message)
fail(log, msg, t) ==
    [log EXCEPT !.completed_at = t,
                !.status = FAILED,
                !.error_message = msg]

Messages == {"x", "Scraper error"}

NoCall == [op |-> "none", attempted |-> 0, updated |-> 0, failedCnt |-> 0, msg |-> None]

-----------------------------------------------------------------------------
(* Orchestrator (views.py, PokemonCardViewSet)                             *)

Runs == 1..NumRuns
Sets == 1..NumSets

MAX_CONCURRENT_REQUESTS == 3

HTTP_200_OK == 200
HTTP_400_BAD_REQUEST == 400
HTTP_404_NOT_FOUND == 404
HTTP_500_INTERNAL_SERVER_ERROR == 500

\* Values of the searchQuery parameter after strip(): blank, or a card name.
SearchQueries == {"", "Mew ex"}

\* CardSetData.ALL_SETS (one representative of the 20 names).
ALL_SETS == {"SV03: Obsidian Flames"}

\* Values of the set_name parameter: absent, a known set, an unknown set.
SetNames == {""} \cup ALL_SETS \cup {"Bogus Set"}

NoReq == [searchQuery |-> "", set_name |-> ""]

\* cache_key = f"scrape:{search_query}:{set_name}:{language}"
cache_key(q, s) == <<q, s>>

\* _create_card_details raises ValueError for a set_name outside ALL_SETS.
create_card_details_raises(s) == s # "" /\ s \notin ALL_SETS

NoTask == [pc |-> "idle", n |-> 0, i |-> 0]

\* except Exception around scraper.main (scrape_and_save, refresh): the log is left as it is.
on_scraper_error_swallow(log, t) == log

\* except Exception around scraper.main (scrape_and_save, refresh).
on_scraper_error(log, t) == fail(log, "Scraper error", t)

\* "if not profit_data" (scrape_and_save) without the fail() call.
on_no_data_skip(log, t) == log

\* Lines 203-204: scrape_and_save found nothing.
on_no_data(log, t) == fail(log, "No data found", t)

\* scrape_and_save after the save loop: fail when nothing was saved, else
\* complete(len(profit_data), len(saved_cards)).
finish_scrape(log, n, nsaved, t) ==
    IF nsaved = 0 THEN fail(log, "Failed to save any card data", t)
    ELSE complete(log, n, nsaved, 0, t)

\* _scrape_all_sets_async: except branch of scrape_and_save_set.
on_set_error(log, t) == fail(log, "Error scraping set", t)

RunIdle ==
    /\ pc = [r \in Runs |-> "idle"]
    /\ kind = [r \in Runs |-> None]
    /\ req = [r \in Runs |-> NoReq]
    /\ scrape_log = [r \in Runs |-> NoLog]
    /\ request_semaphore = [r \in Runs |-> MAX_CONCURRENT_REQUESTS]
    /\ profit_data = [r \in Runs |-> 0]
    /\ idx = [r \in Runs |-> 0]
    /\ saved = [r \in Runs |-> 0]
    /\ upserts = [r \in Runs |-> 0]
    /\ main_raised = [r \in Runs |-> FALSE]
    /\ response = [r \in Runs |-> 0]
    /\ respCache = {}
    /\ task = [r \in Runs |-> [s \in Sets |-> NoTask]]
    /\ total_attempted = [r \in Runs |-> 0]
    /\ total_updated = [r \in Runs |-> 0]

\* A request returns: its response is set and its coroutine is over.
Return(r, code) ==
    /\ response' = [response EXCEPT ![r] = code]
    /\ pc' = [pc EXCEPT ![r] = "done"]

(* ---- scrape_and_save ----                                               *)

\* Lines 166-186: parameters, blank check, response cache lookup, log creation.
SasStart(r) ==
    /\ pc[r] = "idle"
    /\ \E q \in SearchQueries, s \in SetNames :
        /\ kind' = [kind EXCEPT ![r] = "scrape"]
        /\ req' = [req EXCEPT ![r] = [searchQuery |-> q, set_name |-> s]]
        /\ IF q = ""
           THEN /\ Return(r, HTTP_400_BAD_REQUEST)
                /\ UNCHANGED scrape_log
           ELSE IF cache_key(q, s) \in respCache
           THEN /\ Return(r, HTTP_200_OK)
                /\ UNCHANGED scrape_log
           ELSE /\ scrape_log' = [scrape_log EXCEPT ![r] = CreateLog(now)]
                /\ pc' = [pc EXCEPT ![r] = "sem"]
                /\ UNCHANGED response
    /\ UNCHANGED <<outsideRun, now, request_semaphore, profit_data, idx, saved, upserts,
                   main_raised, respCache, task, total_attempted, total_updated>>

\* Lines 189-191, 237-243: enter the semaphore, build the card details; a
\* ValueError leaves the semaphore and is answered 400.
SasAcquire(r) ==
    /\ pc[r] = "sem"
    /\ kind[r] = "scrape"
    /\ request_semaphore[r] > 0
    /\ IF create_card_details_raises(req[r].set_name)
       THEN /\ scrape_log' = [scrape_log EXCEPT ![r] =
                                 fail(@, "Input validation error", now)]
            /\ Return(r, HTTP_400_BAD_REQUEST)
            /\ UNCHANGED request_semaphore
       ELSE /\ request_semaphore' = [request_semaphore EXCEPT ![r] = @ - 1]
            /\ pc' = [pc EXCEPT ![r] = "scraping"]
            /\ UNCHANGED <<scrape_log, response>>
    /\ UNCHANGED <<outsideRun, now, kind, req, profit_data, idx, saved, upserts,
                   main_raised, respCache, task, total_attempted, total_updated>>

\* Lines 193-208: scraper.main raises, returns nothing, or returns n cards.
SasScrape(r) ==
    /\ pc[r] = "scraping"
    /\ kind[r] = "scrape"
    /\ \/ /\ main_raised' = [main_raised EXCEPT ![r] = TRUE]
          /\ scrape_log' = [scrape_log EXCEPT ![r] = on_scraper_error(@, now)]
          /\ request_semaphore' = [request_semaphore EXCEPT ![r] = @ + 1]
          /\ Return(r, HTTP_500_INTERNAL_SERVER_ERROR)
          /\ UNCHANGED profit_data
       \/ /\ scrape_log' = [scrape_log EXCEPT ![r] = on_no_data(@, now)]
          /\ request_semaphore' = [request_semaphore EXCEPT ![r] = @ + 1]
          /\ Return(r, HTTP_404_NOT_FOUND)
          /\ UNCHANGED <<profit_data, main_raised>>
       \/ \E n \in 1..MaxCards :
          /\ profit_data' = [profit_data EXCEPT ![r] = n]
          /\ pc' = [pc EXCEPT ![r] = "saving"]
          /\ UNCHANGED <<scrape_log, request_semaphore, response, main_raised>>
    /\ UNCHANGED <<outsideRun, now, kind, req, idx, saved, upserts, respCache, task,
                   total_attempted, total_updated>>

\* Lines 211-218: one iteration of the save loop; _save_card_to_db returns the
\* row or None (it catches every database error).
SasSaveOne(r) ==
    /\ pc[r] = "saving"
    /\ kind[r] = "scrape"
    /\ idx[r] < profit_data[r]
    /\ \E ok \in BOOLEAN :
        saved' = [saved EXCEPT ![r] = IF ok THEN @ + 1 ELSE @]
    /\ upserts' = [upserts EXCEPT ![r] = @ + 1]
    /\ idx' = [idx EXCEPT ![r] = @ + 1]
    /\ UNCHANGED <<outsideRun, now, pc, kind, req, scrape_log, request_semaphore, profit_data,
                   main_raised, response, respCache, task, total_attempted,
                   total_updated>>

\* Lines 220-235: after the loop.
SasFinish(r) ==
    /\ pc[r] = "saving"
    /\ kind[r] = "scrape"
    /\ idx[r] = profit_data[r]
    /\ scrape_log' = [scrape_log EXCEPT ![r] =
                         finish_scrape(@, profit_data[r], saved[r], now)]
    /\ request_semaphore' = [request_semaphore EXCEPT ![r] = @ + 1]
    /\ IF saved[r] = 0
       THEN /\ Return(r, HTTP_500_INTERNAL_SERVER_ERROR)
            /\ UNCHANGED respCache
       ELSE /\ Return(r, HTTP_200_OK)
            /\ respCache' = respCache \cup
                               {cache_key(req[r].searchQuery, req[r].set_name)}
    /\ UNCHANGED <<outsideRun, now, kind, req, profit_data, idx, saved, upserts, main_raised,
                   task, total_attempted, total_updated>>

(* ---- refresh ----                                                       *)

\* complete() as _refresh_async calls it, with the stored row counted.
refresh_complete_counted(log, nsaved, t) == complete(log, 1, nsaved, 0, t)

\* Line 305: scrape_log.complete(1, 1), whatever _save_card_to_db returned.
refresh_complete(log, nsaved, t) == complete(log, 1, 1, 0, t)

\* Lines 257-269: look the card up; no row -> 404, no product_id -> 400,
\* else create the log.
RefStart(r) ==
    /\ pc[r] = "idle"
    /\ kind' = [kind EXCEPT ![r] = "refresh"]
    /\ \/ /\ Return(r, HTTP_404_NOT_FOUND)
          /\ UNCHANGED <<scrape_log, req>>
       \/ /\ Return(r, HTTP_400_BAD_REQUEST)
          /\ UNCHANGED <<scrape_log, req>>
       \/ \E s \in ALL_SETS \cup {""} :
          /\ req' = [req EXCEPT ![r] = [searchQuery |-> "Mew ex", set_name |-> s]]
          /\ scrape_log' = [scrape_log EXCEPT ![r] = CreateLog(now)]
          /\ pc' = [pc EXCEPT ![r] = "sem"]
          /\ UNCHANGED response
    /\ UNCHANGED <<outsideRun, now, request_semaphore, profit_data, idx, saved, upserts,
                   main_raised, respCache, task, total_attempted, total_updated>>

\* Line 271: async with self._request_semaphore.
RefAcquire(r) ==
    /\ pc[r] = "sem"
    /\ kind[r] = "refresh"
    /\ request_semaphore[r] > 0
    /\ request_semaphore' = [request_semaphore EXCEPT ![r] = @ - 1]
    /\ pc' = [pc EXCEPT ![r] = "scraping"]
    /\ UNCHANGED <<outsideRun, now, kind, req, scrape_log, profit_data, idx, saved, upserts,
                   main_raised, response, respCache, task, total_attempted,
                   total_updated>>

\* Lines 279-294: scraper.main raises, returns nothing, or returns n cards.
RefScrape(r) ==
    /\ pc[r] = "scraping"
    /\ kind[r] = "refresh"
    /\ \/ /\ main_raised' = [main_raised EXCEPT ![r] = TRUE]
          /\ scrape_log' = [scrape_log EXCEPT ![r] = on_scraper_error(@, now)]
          /\ request_semaphore' = [request_semaphore EXCEPT ![r] = @ + 1]
          /\ Return(r, HTTP_500_INTERNAL_SERVER_ERROR)
          /\ UNCHANGED profit_data
       \/ /\ scrape_log' = [scrape_log EXCEPT ![r] =
                               fail(@, "No updated data found", now)]
          /\ request_semaphore' = [request_semaphore EXCEPT ![r] = @ + 1]
          /\ Return(r, HTTP_404_NOT_FOUND)
          /\ UNCHANGED <<profit_data, main_raised>>
       \/ \E n \in 1..MaxCards :
          /\ profit_data' = [profit_data EXCEPT ![r] = n]
          /\ pc' = [pc EXCEPT ![r] = "saving"]
          /\ UNCHANGED <<scrape_log, request_semaphore, response, main_raised>>
    /\ UNCHANGED <<outsideRun, now, kind, req, idx, saved, upserts, respCache, task,
                   total_attempted, total_updated>>

\* Lines 297-298: the single upsert of updated_data[0]; the row or None.
RefSave(r) ==
    /\ pc[r] = "saving"
    /\ kind[r] = "refresh"
    /\ \E ok \in BOOLEAN :
        saved' = [saved EXCEPT ![r] = IF ok THEN @ + 1 ELSE @]
    /\ upserts' = [upserts EXCEPT ![r] = @ + 1]
    /\ idx' = [idx EXCEPT ![r] = @ + 1]
    /\ pc' = [pc EXCEPT ![r] = "invalidate"]
    /\ UNCHANGED <<outsideRun, now, kind, req, scrape_log, request_semaphore, profit_data,
                   main_raised, response, respCache, task, total_attempted,
                   total_updated>>

\* Lines 300-307, 321-327: cache.delete_pattern (an AttributeError on a cache
\* backend without it is caught by the outer except: fail, 500), then
\* complete(1, 1) and the 200 response.
RefFinish(r) ==
    /\ pc[r] = "invalidate"
    /\ kind[r] = "refresh"
    /\ request_semaphore' = [request_semaphore EXCEPT ![r] = @ + 1]
    /\ \/ /\ scrape_log' = [scrape_log EXCEPT ![r] = fail(@, "str(e)", now)]
          /\ Return(r, HTTP_500_INTERNAL_SERVER_ERROR)
          /\ UNCHANGED respCache
       \/ /\ respCache' = respCache \ {cache_key(req[r].searchQuery, req[r].set_name)}
          /\ scrape_log' = [scrape_log EXCEPT ![r] = refresh_complete(@, saved[r], now)]
          /\ Return(r, HTTP_200_OK)
    /\ UNCHANGED <<outsideRun, now, kind, req, profit_data, idx, saved, upserts, main_raised,
                   task, total_attempted, total_updated>>

(* ---- scrape_all_sets ----                                               *)

\* Lines 329-333: the log is created by the view.
BulkStart(r) ==
    /\ pc[r] = "idle"
    /\ kind' = [kind EXCEPT ![r] = "bulk"]
    /\ scrape_log' = [scrape_log EXCEPT ![r] = CreateLog(now)]
    /\ pc' = [pc EXCEPT ![r] = "sem"]
    /\ UNCHANGED <<outsideRun, now, req, request_semaphore, profit_data, idx, saved, upserts,
                   main_raised, response, respCache, task, total_attempted,
                   total_updated>>

\* Lines 373-386: one permit for the whole gather; a task per set.
BulkAcquire(r) ==
    /\ pc[r] = "sem"
    /\ kind[r] = "bulk"
    /\ request_semaphore[r] > 0
    /\ request_semaphore' = [request_semaphore EXCEPT ![r] = @ - 1]
    /\ task' = [task EXCEPT ![r] = [s \in Sets |-> [pc |-> "scrape", n |-> 0, i |-> 0]]]
    /\ pc' = [pc EXCEPT ![r] = "gather"]
    /\ UNCHANGED <<outsideRun, now, kind, req, scrape_log, profit_data, idx, saved, upserts,
                   main_raised, response, respCache, total_attempted,
                   total_updated>>

\* Lines 352-355, 367-370: scraper.main for one set raises (the task calls
\* scrape_log.fail and ends) or returns n cards (total_attempted += n).
BulkSetScrape(r, s) ==
    /\ pc[r] = "gather"
    /\ task[r][s].pc = "scrape"
    /\ \/ /\ main_raised' = [main_raised EXCEPT ![r] = TRUE]
          /\ scrape_log' = [scrape_log EXCEPT ![r] = on_set_error(@, now)]
          /\ task' = [task EXCEPT ![r][s].pc = "done"]
          /\ UNCHANGED total_attempted
       \/ \E n \in 0..MaxCards :
          /\ total_attempted' = [total_attempted EXCEPT ![r] = @ + n]
          /\ task' = [task EXCEPT ![r][s] =
                         [pc |-> IF n = 0 THEN "done" ELSE "save", n |-> n, i |-> 0]]
          /\ UNCHANGED <<scrape_log, main_raised>>
    /\ UNCHANGED <<outsideRun, now, pc, kind, req, request_semaphore, profit_data, idx, saved,
                   upserts, response, respCache, total_updated>>

\* Lines 357-364: one iteration of a set task's save loop. Every card the
\* scraper returns carries a rarity of its language's list, so the rarity test
\* of line 358 passes.
BulkSetSave(r, s) ==
    /\ pc[r] = "gather"
    /\ task[r][s].pc = "save"
    /\ \E ok \in BOOLEAN :
        /\ saved' = [saved EXCEPT ![r] = IF ok THEN @ + 1 ELSE @]
        /\ total_updated' = [total_updated EXCEPT ![r] = IF ok THEN @ + 1 ELSE @]
    /\ upserts' = [upserts EXCEPT ![r] = @ + 1]
    /\ task' = [task EXCEPT ![r][s] =
                   [pc |-> IF @.i + 1 = @.n THEN "done" ELSE "save",
                    n |-> @.n, i |-> @.i + 1]]
    /\ UNCHANGED <<outsideRun, now, pc, kind, req, scrape_log, request_semaphore, profit_data,
                   idx, main_raised, response, respCache, total_attempted>>

\* Lines 386-388, 337-340: gather is over; complete(total_attempted,
\* total_updated); the view answers.
BulkFinish(r) ==
    /\ pc[r] = "gather"
    /\ \A s \in Sets : task[r][s].pc = "done"
    /\ request_semaphore' = [request_semaphore EXCEPT ![r] = @ + 1]
    /\ scrape_log' = [scrape_log EXCEPT ![r] =
                         complete(@, total_attempted[r], total_updated[r], 0, now)]
    /\ Return(r, HTTP_200_OK)
    /\ UNCHANGED <<outsideRun, now, kind, req, profit_data, idx, saved, upserts, main_raised,
                   respCache, task, total_attempted, total_updated>>

-----------------------------------------------------------------------------
(* Marketplace fetch and AsyncRateLimiter (scraper.py)                     *)

Fetches == 1..NumFetch

ONE_MINUTE == 60
MAX_REQUESTS_TCG == 30
MAX_RETRIES == 3
CONCURRENCY == 10
RETRY_DELAYS == <<1, 3, 5>>

RARITY_MAPPING ==
    [English |-> <<"Special Illustration Rare", "Illustration Rare", "Hyper Rare">>,
     Japanese |-> <<"Art Rare", "Super Rare", "Special Art Rare", "Ultra Rare">>]

Languages == DOMAIN RARITY_MAPPING

Max(a, b) == IF a >= b THEN a ELSE b

\* Time is counted in units of 1/Scale second, so that the sleep of
\* __aenter__ (period / 29 seconds) is a whole number of units.
Scale == MAX_REQUESTS_TCG - 1
Secs(n) == n * Scale

\* A limiter built with no permit.
AsyncRateLimiter_init_empty(rpm) == 0

\* AsyncRateLimiter.__init__: self.semaphore = asyncio.Semaphore(rpm).
AsyncRateLimiter_init(rpm) == rpm

\* __aenter__: wait_time = self.period / max(1, self.semaphore._value), in units.
wait_time(period, value) == Secs(period) \div Max(1, value)

FetchIdle ==
    /\ fpc = [t \in Fetches |-> "idle"]
    /\ language = [t \in Fetches |-> None]
    /\ site = [t \in Fetches |-> None]
    /\ rarity_idx = [t \in Fetches |-> 0]
    /\ attempt = [t \in Fetches |-> 0]
    /\ timer = [t \in Fetches |-> 0]
    /\ limiter_value = [t \in Fetches |-> 0]
    /\ playwright_sem = CONCURRENCY
    /\ win_left = -1
    /\ win_gotos = 0

Sleeping(t) == fpc[t] \in {"limiter_sleep", "backoff"}

\* The task can take a step now.
Ready(t) ==
    \/ fpc[t] = "idle"
    \/ fpc[t] = "sem" /\ playwright_sem > 0
    \/ fpc[t] = "limiter" /\ limiter_value[t] > 0
    \/ fpc[t] = "goto"
    \/ Sleeping(t) /\ timer[t] = 0

\* The event loop is single-threaded and runs its ready queue in order: of
\* the tasks ready at one instant the first in list order steps first. (The
\* steps of different tasks at one instant commute: each task has its own
\* limiter, and they share only playwright_sem and the observer's counter.)
Turn(t) == \A u \in Fetches : u < t => ~Ready(u)

\* Lines 192-194: the language is checked first. The marketplace either
\* answers this query's navigations ("up") or fails each of them ("down").
FetchStart(t) ==
    /\ fpc[t] = "idle"
    /\ Turn(t)
    /\ \/ /\ language' = [language EXCEPT ![t] = "Korean"]
          /\ fpc' = [fpc EXCEPT ![t] = "raised"]
          /\ UNCHANGED site
       \/ \E lang \in Languages, st \in {"up", "down"} :
          /\ language' = [language EXCEPT ![t] = lang]
          /\ site' = [site EXCEPT ![t] = st]
          /\ fpc' = [fpc EXCEPT ![t] = "sem"]
    /\ UNCHANGED <<outsideFetch, rarity_idx, attempt, timer, limiter_value,
                   playwright_sem, win_left, win_gotos>>

\* Lines 196-202: enter playwright_sem, open the page, reach the limiter of
\* the first rarity (a new AsyncRateLimiter each time).
FetchOpenPage(t) ==
    /\ fpc[t] = "sem"
    /\ Turn(t)
    /\ playwright_sem > 0
    /\ playwright_sem' = playwright_sem - 1
    /\ rarity_idx' = [rarity_idx EXCEPT ![t] = 1]
    /\ limiter_value' = [limiter_value EXCEPT ![t] =
                            AsyncRateLimiter_init(MAX_REQUESTS_TCG)]
    /\ fpc' = [fpc EXCEPT ![t] = "limiter"]
    /\ UNCHANGED <<outsideFetch, language, site, attempt, timer, win_left, win_gotos>>

\* Lines 101-104: take a permit of the limiter's own semaphore, then sleep.
LimiterAcquire(t) ==
    /\ fpc[t] = "limiter"
    /\ Turn(t)
    /\ limiter_value[t] > 0
    /\ limiter_value' = [limiter_value EXCEPT ![t] = @ - 1]
    /\ timer' = [timer EXCEPT ![t] = wait_time(ONE_MINUTE, limiter_value[t] - 1)]
    /\ fpc' = [fpc EXCEPT ![t] = "limiter_sleep"]
    /\ UNCHANGED <<outsideFetch, language, site, rarity_idx, attempt, playwright_sem,
                   win_left, win_gotos>>

\* Line 105: the sleep is over; the permit is returned and the body runs.
LimiterWake(t) ==
    /\ fpc[t] = "limiter_sleep"
    /\ Turn(t)
    /\ timer[t] = 0
    /\ limiter_value' = [limiter_value EXCEPT ![t] = @ + 1]
    /\ attempt' = [attempt EXCEPT ![t] = 0]
    /\ fpc' = [fpc EXCEPT ![t] = "goto"]
    /\ UNCHANGED <<outsideFetch, language, site, rarity_idx, timer, playwright_sem,
                   win_left, win_gotos>>

\* Lines 201-202, 220: the next rarity gets a new limiter; after the last
\* one the page is closed and playwright_sem is left.
NextRarity(t) ==
    IF rarity_idx[t] < Len(RARITY_MAPPING[language[t]])
    THEN /\ rarity_idx' = [rarity_idx EXCEPT ![t] = @ + 1]
         /\ limiter_value' = [limiter_value EXCEPT ![t] =
                                 AsyncRateLimiter_init(MAX_REQUESTS_TCG)]
         /\ fpc' = [fpc EXCEPT ![t] = "limiter"]
         /\ UNCHANGED playwright_sem
    ELSE /\ playwright_sem' = playwright_sem + 1
         /\ fpc' = [fpc EXCEPT ![t] = "done"]
         /\ UNCHANGED <<rarity_idx, limiter_value>>

\* Lines 203-218: one attempt. page.goto starts a navigation; the attempt
\* either succeeds (break) or raises (sleep RETRY_DELAYS[attempt]).
Goto(t) ==
    /\ fpc[t] = "goto"
    /\ Turn(t)
    /\ win_gotos' = IF win_left > 0 THEN win_gotos + 1 ELSE win_gotos
    /\ \/ /\ site[t] = "up"
          /\ NextRarity(t)
          /\ UNCHANGED <<timer, attempt>>
       \/ /\ site[t] = "down"
          /\ timer' = [timer EXCEPT ![t] = Secs(RETRY_DELAYS[attempt[t] + 1])]
          /\ fpc' = [fpc EXCEPT ![t] = "backoff"]
          /\ UNCHANGED <<rarity_idx, limiter_value, playwright_sem, attempt>>
    /\ UNCHANGED <<outsideFetch, language, site, win_left>>

\* Line 203: the back-off sleep is over; next attempt, or the loop ends.
BackoffWake(t) ==
    /\ fpc[t] = "backoff"
    /\ Turn(t)
    /\ timer[t] = 0
    /\ attempt' = [attempt EXCEPT ![t] = @ + 1]
    /\ IF attempt[t] + 1 < MAX_RETRIES
       THEN /\ fpc' = [fpc EXCEPT ![t] = "goto"]
            /\ UNCHANGED <<rarity_idx, limiter_value, playwright_sem>>
       ELSE NextRarity(t)
    /\ UNCHANGED <<outsideFetch, language, site, timer, win_left, win_gotos>>

\* The pending deadlines: running sleeps and the end of the observed window.
Deadlines ==
    {timer[t] : t \in {u \in Fetches : Sleeping(u)}}
        \cup (IF win_left > 0 THEN {win_left} ELSE {})

\* Time passes up to the next deadline, once every task of the batch has
\* started and every ready task has run.
Advance ==
    /\ \A t \in Fetches : ~Ready(t)
    /\ Deadlines # {}
    /\ LET d == CHOOSE x \in Deadlines : \A y \in Deadlines : x <= y IN
        /\ timer' = [t \in Fetches |-> IF Sleeping(t) THEN timer[t] - d ELSE timer[t]]
        /\ win_left' = IF win_left > 0 THEN win_left - d ELSE win_left
    /\ UNCHANGED <<outsideFetch, fpc, language, site, rarity_idx, attempt, limiter_value,
                   playwright_sem, win_gotos>>

\* An observer opens a 60-second window just before some navigation (a
\* window opened earlier counts no more navigations than this one).
StartWindow ==
    /\ win_left = -1
    /\ \E t \in Fetches : fpc[t] = "goto"
    /\ win_left' = Secs(ONE_MINUTE)
    /\ win_gotos' = 0
    /\ UNCHANGED <<outsideFetch, fpc, language, site, rarity_idx, attempt, timer,
                   limiter_value, playwright_sem>>

-----------------------------------------------------------------------------
(* eBay call limiter (scraper.py): get_ebay_psa10_price_async is wrapped   *)
(* by @sleep_and_retry @limits(calls=MAX_REQUESTS_EBAY, period=ONE_MINUTE) *)
(* of the ratelimit package. limits counts the calls made since its        *)
(* last_reset and starts a new period once the period has elapsed;         *)
(* sleep_and_retry sleeps (time.sleep) for the rest of the period when the *)
(* count is exceeded and calls again. Time is counted in seconds.          *)

MAX_REQUESTS_EBAY == 20

EbayIdle ==
    /\ eb_elapsed = 0
    /\ num_calls = 0
    /\ eb_sleep = -1
    /\ eb_win_left = -1
    /\ eb_win_calls = 0

\* limits: period_remaining = period - (clock() - last_reset).
period_remaining == ONE_MINUTE - eb_elapsed

\* A call of the wrapped function (a new call, or the retry after the
\* sleep). An expired period is reset; the call is counted; over the limit
\* RateLimitException makes sleep_and_retry sleep for period_remaining, else
\* the coroutine runs and the HTTP request is issued.
EbayCall ==
    /\ eb_sleep \in {-1, 0}
    /\ LET expired == period_remaining <= 0
           calls == (IF expired THEN 0 ELSE num_calls) + 1
       IN  /\ num_calls' = calls
           /\ eb_elapsed' = IF expired THEN 0 ELSE eb_elapsed
           /\ IF calls > MAX_REQUESTS_EBAY
              THEN /\ eb_sleep' = period_remaining
                   /\ UNCHANGED eb_win_calls
              ELSE /\ eb_sleep' = -1
                   /\ eb_win_calls' = IF eb_win_left > 0 THEN eb_win_calls + 1
                                      ELSE eb_win_calls
    /\ UNCHANGED <<outsideEbay, eb_win_left>>

Min(a, b) == IF a <= b THEN a ELSE b

\* Time passes (not past the end of a sleep or of the observed window). The
\* retry that follows a sleep is made before any more time passes.
EbayAdvance ==
    /\ eb_sleep # 0
    /\ LET d1 == IF eb_sleep > 0 THEN Min(EbayStepSecs, eb_sleep) ELSE EbayStepSecs
           d == IF eb_win_left > 0 THEN Min(d1, eb_win_left) ELSE d1
       IN  /\ eb_elapsed' = Min(ONE_MINUTE, eb_elapsed + d)
           /\ eb_sleep' = IF eb_sleep > 0 THEN eb_sleep - d ELSE eb_sleep
           /\ eb_win_left' = IF eb_win_left > 0 THEN eb_win_left - d ELSE eb_win_left
    /\ UNCHANGED <<outsideEbay, num_calls, eb_win_calls>>

\* An observer opens a 60-second window at any moment.
EbayStartWindow ==
    /\ eb_win_left = -1
    /\ eb_win_left' = ONE_MINUTE
    /\ eb_win_calls' = 0
    /\ UNCHANGED <<outsideEbay, eb_elapsed, num_calls, eb_sleep>>

-----------------------------------------------------------------------------
(* PriceCache (scraper.py). Time is counted in hours.                      *)

CACHE_HOURS == 24

Keys == {"k1", "k2"}
Values == {"v1", "v2"}

\* The key is not in self.cache.
NoEntry == [data |-> None, timestamp |-> -1]

NoOp == [op |-> "none", key |-> None, result |-> None]

CacheIdle ==
    /\ price_cache = [k \in Keys |-> NoEntry]
    /\ cache_clock = 0
    /\ written = [k \in Keys |-> NoEntry]
    /\ lastOp = NoOp

\* An entry of age CACHE_HOURS still counts as fresh.
is_fresh_inclusive(t, timestamp) == t - timestamp <= CACHE_HOURS

\* Line 144: datetime.now() - timestamp < timedelta(hours=Config.CACHE_HOURS)
is_fresh(t, timestamp) == t - timestamp < CACHE_HOURS

\* PriceCache.get (lines 141-147)
CacheGet(k) ==
    /\ IF price_cache[k] # NoEntry
       THEN IF is_fresh(cache_clock, price_cache[k].timestamp)
            THEN /\ lastOp' = [op |-> "get", key |-> k, result |-> price_cache[k].data]
                 /\ UNCHANGED price_cache
            ELSE /\ price_cache' = [price_cache EXCEPT ![k] = NoEntry]
                 /\ lastOp' = [op |-> "get", key |-> k, result |-> None]
       ELSE /\ lastOp' = [op |-> "get", key |-> k, result |-> None]
            /\ UNCHANGED price_cache
    /\ UNCHANGED <<outsideCache, cache_clock, written>>

\* PriceCache.set (lines 149-151)
CacheSet(k, v) ==
    /\ price_cache' = [price_cache EXCEPT ![k] = [data |-> v, timestamp |-> cache_clock]]
    /\ written' = [written EXCEPT ![k] = [data |-> v, timestamp |-> cache_clock]]
    /\ lastOp' = [op |-> "set", key |-> k, result |-> None]
    /\ UNCHANGED <<outsideCache, cache_clock>>

\* Time passes.
CacheTick ==
    /\ cache_clock + CacheStepHours <= MaxCacheHours
    /\ cache_clock' = cache_clock + CacheStepHours
    /\ lastOp' = NoOp
    /\ UNCHANGED <<outsideCache, price_cache, written>>

-----------------------------------------------------------------------------
(* PriceCache persistence (scraper.py): save_cache writes the cache to     *)
(* price_cache.json, async_load_cache reads it into a PriceCache.          *)

\* No price_cache.json on disk.
NoFile == [exists |-> FALSE, content |-> [k \in {} |-> NoEntry]]

PersistIdle ==
    /\ cache_file = NoFile
    /\ at_save = [k \in Keys |-> NoEntry]

\* A text that keeps the time of day and drops the date.
isoformat_time_only(timestamp) == [date |-> 0, hour |-> timestamp % 24]

\* Line 134: v[1].isoformat(), the date and the time of day as text.
isoformat(timestamp) == [date |-> timestamp \div 24, hour |-> timestamp % 24]

\* Line 123: datetime.fromisoformat(v['timestamp'])
fromisoformat(text) == text.date * 24 + text.hour

\* Lines 131-137: the entries of self.cache, timestamps as text.
cache_data(cache) ==
    [k \in {j \in Keys : cache[j] # NoEntry} |->
        [data |-> cache[k].data, timestamp |-> isoformat(cache[k].timestamp)]]

\* PriceCache.async_load_cache (lines 117-127): self.cache becomes what the
\* file holds, or {} when there is no file.
async_load_cache(file) ==
    IF file.exists
    THEN [k \in Keys |->
             IF k \in DOMAIN file.content
             THEN [data |-> file.content[k].data,
                   timestamp |-> fromisoformat(file.content[k].timestamp)]
             ELSE NoEntry]
    ELSE [k \in Keys |-> NoEntry]

\* PriceCache.save_cache (lines 129-139)
SaveCache ==
    /\ cache_file' = [exists |-> TRUE, content |-> cache_data(price_cache)]
    /\ at_save' = price_cache
    /\ lastOp' = [op |-> "save", key |-> None, result |-> None]
    /\ UNCHANGED <<outsidePersist, price_cache, cache_clock, written>>

\* PriceCache.async_load_cache (lines 117-127) into a fresh PriceCache: the
\* process restarted, or main begins a run.
LoadCache ==
    /\ price_cache' = async_load_cache(cache_file)
    /\ lastOp' = [op |-> "load", key |-> None, result |-> None]
    /\ UNCHANGED <<outsidePersist, cache_clock, written, cache_file, at_save>>

-----------------------------------------------------------------------------
(* Price estimate (scraper.py, calculate_average_price). Python floats are *)
(* binary floating-point numbers and every operation returns the nearest   *)
(* representable number, ties to the even mantissa. The model keeps this   *)
(* arithmetic with a mantissa of MantissaBits bits; prices are counted in  *)
(* the smallest step of the format, so every float is an integer here.     *)

\* The distance between neighbouring floats around q >= 0.
RECURSIVE StepOf(_)
StepOf(q) == IF q < 2^MantissaBits THEN 1 ELSE 2 * StepOf(q \div 2)

\* The float nearest to n/d (n >= 0, d > 0), ties to even.
fl_round(n, d) ==
    LET step == StepOf(n \div d)
        m == n \div (d * step)
        r == n - m * d * step
    IN  IF 2 * r < d * step THEN m * step
        ELSE IF 2 * r > d * step THEN (m + 1) * step
        ELSE IF m % 2 = 0 THEN m * step ELSE (m + 1) * step

fl(n, d) == IF n >= 0 THEN fl_round(n, d) ELSE 0 - fl_round(0 - n, d)

\* sum(xs): left to right, each addition rounded.
RECURSIVE fl_sum(_)
fl_sum(xs) ==
    IF xs = <<>> THEN 0
    ELSE fl(fl_sum(SubSeq(xs, 1, Len(xs) - 1)) + xs[Len(xs)], 1)

\* sum(xs) / len(xs)
fl_mean(xs) == fl(fl_sum(xs), Len(xs))

\* list.sort(): ascending order.
RECURSIVE insert(_, _)
insert(xs, x) ==
    IF xs = <<>> THEN <<x>>
    ELSE IF x >= xs[Len(xs)] THEN Append(xs, x)
    ELSE Append(insert(SubSeq(xs, 1, Len(xs) - 1), x), xs[Len(xs)])

RECURSIVE sort(_)
sort(xs) == IF xs = <<>> THEN <<>>
            ELSE insert(sort(SubSeq(xs, 1, Len(xs) - 1)), xs[Len(xs)])

\* The function returned None.
Absent == [present |-> FALSE, value |-> 0]
Present(v) == [present |-> TRUE, value |-> v]

\* Lines 456-463 on the sorted list.
q1_of(sorted) == sorted[Max(0, Len(sorted) \div 4) + 1]
q3_of(sorted) == sorted[Min(Len(sorted) - 1, (3 * Len(sorted)) \div 4) + 1]
iqr_of(sorted) == fl(q3_of(sorted) - q1_of(sorted), 1)
lower_bound(sorted) == fl(q1_of(sorted) - fl(3 * iqr_of(sorted), 2), 1)
upper_bound(sorted) == fl(q3_of(sorted) + fl(3 * iqr_of(sorted), 2), 1)

\* A filter that drops the prices lying on a bound.
in_bounds_strict(p, lo, hi) == lo < p /\ p < hi

\* Line 465: lower_bound <= p <= upper_bound
in_bounds(p, lo, hi) == lo <= p /\ p <= hi

\* Line 465: filtered_prices
filtered_prices(sorted) ==
    SelectSeq(sorted, LAMBDA p : in_bounds(p, lower_bound(sorted), upper_bound(sorted)))

\* The mean of all the prices, whatever their number.
calculate_average_price_unfiltered(ps) ==
    IF ps = <<>> THEN Absent ELSE Present(fl_mean(ps))

\* calculate_average_price (lines 446-468)
calculate_average_price(ps) ==
    IF ps = <<>> THEN Absent
    ELSE IF Len(ps) < 3 THEN Present(fl_mean(ps))
    ELSE IF filtered_prices(sort(ps)) = <<>> THEN Present(fl_mean(sort(ps)))
    ELSE Present(fl_mean(filtered_prices(sort(ps))))

\* Prices the estimate is computed from, and the lists made of them.
PriceValues == {5, 7, 10, 86, 1000}

RECURSIVE ListsUpTo(_)
ListsUpTo(n) ==
    IF n = 0 THEN {<<>>}
    ELSE LET shorter == ListsUpTo(n - 1) IN
         shorter \cup {Append(xs, x) : xs \in {l \in shorter : Len(l) = n - 1},
                                       x \in PriceValues}

PriceIdle ==
    /\ prices = <<>>
    /\ estimate = Absent
    /\ est_done = FALSE

\* A call of calculate_average_price(prices); prices.sort() (line 455)
\* sorts the caller's list in place.
Estimate ==
    /\ ~est_done
    /\ est_done' = TRUE
    /\ estimate' = calculate_average_price(prices)
    /\ prices' = IF Len(prices) < 3 THEN prices ELSE sort(prices)
    /\ UNCHANGED outsidePrice

-----------------------------------------------------------------------------
(* Auction estimate and reconciliation (scraper.py):                       *)
(* get_ebay_psa10_price_async and the loop of process_card_batch that      *)
(* calls it for every listing of a marketplace result.                     *)

HTTP_OK == 200
HTTP_UNAVAILABLE == 503

\* A listing returned by fetch_tcgplayer_data (CardPriceData): card_name is
\* the title split in words, <<>> for an empty title.
CardListings ==
    {[card_name |-> <<"mew", "ex">>, set_name |-> "Pokemon Card 151",
      language |-> "Japanese", tcgplayer_price |-> 50],
     [card_name |-> <<"pikachu">>, set_name |-> "Pokemon Card 151",
      language |-> "Japanese", tcgplayer_price |-> 10],
     [card_name |-> <<>>, set_name |-> "Pokemon Card 151",
      language |-> "Japanese", tcgplayer_price |-> 10]}

RECURSIVE ListingsUpTo(_)
ListingsUpTo(n) ==
    IF n = 0 THEN {<<>>}
    ELSE LET shorter == ListingsUpTo(n - 1) IN
         shorter \cup {Append(xs, x) : xs \in {l \in shorter : Len(l) = n - 1},
                                       x \in CardListings}

\* An item of the eBay result page: whether its title passes the checks of
\* lines 418-434 for the card searched, and the price it shows.
EbayItems == {[title_ok |-> TRUE, price |-> 80], [title_ok |-> FALSE, price |-> 7],
              [title_ok |-> TRUE, price |-> 0]}

\* What session.get does: it answers (status, page) or it raises.
EbayResponses ==
    {[kind |-> "response", status |-> HTTP_OK, html |-> <<>>]}
    \cup {[kind |-> "response", status |-> HTTP_OK, html |-> <<item>>] : item \in EbayItems}
    \cup {[kind |-> "response", status |-> HTTP_UNAVAILABLE, html |-> <<>>],
          [kind |-> "ClientError", status |-> 0, html |-> <<>>],
          [kind |-> "TimeoutError", status |-> 0, html |-> <<>>]}

NoException == "none"

\* extract_ebay_prices (lines 397-444): search_parts[0] raises IndexError
\* when the name has no word; else the prices of the matching items.
extract_ebay_prices(html, card_details) ==
    IF card_details.card_name = <<>>
    THEN [raised |-> "IndexError", prices |-> <<>>]
    ELSE [raised |-> NoException,
          prices |-> LET matching == SelectSeq(html, LAMBDA item : item.title_ok)
                     IN  [i \in DOMAIN matching |-> matching[i].price]]

\* Lines 376-391: the body of the try block.
ebay_try_body(card_details, resp) ==
    IF resp.kind # "response"
    THEN [raised |-> resp.kind, estimate |-> Absent]
    ELSE IF resp.status # HTTP_OK
    THEN [raised |-> "RequestError", estimate |-> Absent]
    ELSE LET parsed == extract_ebay_prices(resp.html, card_details) IN
         IF parsed.raised # NoException
         THEN [raised |-> parsed.raised, estimate |-> Absent]
         ELSE IF parsed.prices = <<>>
         THEN [raised |-> NoException, estimate |-> Absent]
         ELSE [raised |-> NoException,
               estimate |-> calculate_average_price(parsed.prices)]

\* A handler that lets the exception through.
ebay_except_reraise(outcome) == outcome

\* Lines 393-395: except Exception: log and return None.
ebay_except(outcome) ==
    IF outcome.raised # NoException
    THEN [raised |-> NoException, estimate |-> Absent]
    ELSE outcome

\* get_ebay_psa10_price_async (lines 360-395): what the caller gets.
get_ebay_psa10_price(card_details, resp) ==
    ebay_except(ebay_try_body(card_details, resp))

NoField == [present |-> FALSE, value |-> 0]

\* A percentage that is None.
NoPercent == [present |-> FALSE, value |-> [num |-> 0, den |-> 1]]

\* A float below the integer grid of the prices is kept as a fraction whose
\* denominator is a power of two, in lowest terms.
RECURSIVE lowest_terms(_, _)
lowest_terms(num, den) ==
    IF den > 1 /\ num % 2 = 0 THEN lowest_terms(num \div 2, den \div 2)
    ELSE [num |-> num, den |-> den]

\* The power of two that brings n/d (n, d > 0) up to a full mantissa.
RECURSIVE upscale(_, _)
upscale(n, d) ==
    IF n >= d * 2^(MantissaBits - 1) THEN 1 ELSE 2 * upscale(2 * n, d)

\* The float nearest to n/d (d > 0), ties to even.
fl_frac(n, d) ==
    IF n = 0 THEN [num |-> 0, den |-> 1]
    ELSE IF n > 0 THEN lowest_terms(fl_round(n * upscale(n, d), d), upscale(n, d))
    ELSE LET pos == lowest_terms(fl_round((0 - n) * upscale(0 - n, d), d),
                                 upscale(0 - n, d))
         IN  [num |-> 0 - pos.num, den |-> pos.den]

\* Line 504: (card_data.price_delta / card_data.tcgplayer_price) * 100, the
\* division and the product each rounded.
percent(delta, price) ==
    LET ratio == fl_frac(delta, price)
    IN  fl_frac(ratio.num * 100, ratio.den)

\* Lines 501-505: the card with or without its graded-price fields
\* (if ebay_price: is false for None and for 0.0). The price of a listing
\* is never 0 (extract_card_data, line 308), so the division is defined.
reconciled(listing, ebay_price) ==
    IF ebay_price.present /\ ebay_price.value # 0
    THEN LET delta == fl(ebay_price.value - listing.tcgplayer_price, 1) IN
         [card |-> listing,
          psa_10_price |-> Present(ebay_price.value),
          price_delta |-> Present(delta),
          profit_potential |->
              Present(percent(delta, listing.tcgplayer_price))]
    ELSE [card |-> listing, psa_10_price |-> NoField, price_delta |-> NoField,
          profit_potential |-> NoPercent]

BatchIdle ==
    /\ listings = <<>>
    /\ b_pc = "idle"
    /\ b_idx = 0
    /\ ebay_calls = <<>>
    /\ all_price_data = <<>>

\* Lines 483-491: the loop over the listings of a marketplace result begins.
BatchStart ==
    /\ b_pc = "idle"
    /\ b_pc' = "loop"
    /\ b_idx' = 1
    /\ UNCHANGED <<outsideBatch, listings, ebay_calls, all_price_data>>

\* Lines 492-509: one listing. The call issues its HTTP request whatever
\* was fetched before; an exception reaching the loop drops the listing.
BatchEbay(resp) ==
    /\ b_pc = "loop"
    /\ b_idx <= Len(listings)
    /\ LET listing == listings[b_idx]
           got == get_ebay_psa10_price(listing, resp)
       IN  /\ ebay_calls' = Append(ebay_calls, [card |-> listing, response |-> resp,
                                     requested |-> TRUE, raised |-> got.raised,
                                     estimate |-> got.estimate])
           /\ all_price_data' =
                 IF got.raised # NoException THEN all_price_data
                 ELSE Append(all_price_data, reconciled(listing, got.estimate))
    /\ b_idx' = b_idx + 1
    /\ UNCHANGED <<outsideBatch, listings, b_pc>>

\* Line 511: return all_price_data.
BatchReturn ==
    /\ b_pc = "loop"
    /\ b_idx > Len(listings)
    /\ b_pc' = "done"
    /\ UNCHANGED <<outsideBatch, listings, b_idx, ebay_calls, all_price_data>>

-----------------------------------------------------------------------------
(* One fetch_tcgplayer_data call in detail (scraper.py): what each of its  *)
(* awaits can do, the retry loop, the page and the playwright_sem permit.  *)
(* Sleeps take no part in it and are left out.                             *)

\* The indexes of the rarity loop: the longest rarity list.
RarityIndexes == 1..Len(RARITY_MAPPING.Japanese)

PageIdle ==
    /\ p_pc = "idle"
    /\ p_language = None
    /\ p_rarity = 0
    /\ p_attempt = 0
    /\ page_state = "none"
    /\ gotos = [r \in RarityIndexes |-> 0]
    /\ rarity_result = [r \in RarityIndexes |-> "none"]
    /\ all_card_data = {}
    /\ p_exc = NoException

\* Lines 192-196: the language check, then async with playwright_sem.
PageStart(lang) ==
    /\ p_pc = "idle"
    /\ p_language' = lang
    /\ IF lang \in Languages
       THEN /\ playwright_sem > 0
            /\ playwright_sem' = playwright_sem - 1
            /\ p_pc' = "new_page"
            /\ UNCHANGED p_exc
       ELSE /\ p_pc' = "raised"
            /\ p_exc' = "ValueError"
            /\ UNCHANGED playwright_sem
    /\ UNCHANGED <<outsidePage, p_rarity, p_attempt, page_state, gotos,
                   rarity_result, all_card_data>>

\* Leaving the async with playwright_sem block by an exception: the permit
\* is released, nothing else is done.
PageRaise(exc) ==
    /\ p_pc' = "raised"
    /\ p_exc' = exc
    /\ playwright_sem' = playwright_sem + 1

\* Line 197: page = await context.new_page()
PageNew(ok) ==
    /\ p_pc = "new_page"
    /\ IF ok
       THEN /\ page_state' = "open"
            /\ p_pc' = "route"
            /\ UNCHANGED <<p_exc, playwright_sem>>
       ELSE /\ PageRaise("Error")
            /\ UNCHANGED page_state
    /\ UNCHANGED <<outsidePage, p_language, p_rarity, p_attempt, gotos,
                   rarity_result, all_card_data>>

\* Line 198: await page.route(...); then the first rarity (lines 200-203).
PageRoute(ok) ==
    /\ p_pc = "route"
    /\ IF ok
       THEN /\ p_pc' = "attempt"
            /\ p_rarity' = 1
            /\ p_attempt' = 0
            /\ UNCHANGED <<p_exc, playwright_sem>>
       ELSE /\ PageRaise("Error")
            /\ UNCHANGED <<p_rarity, p_attempt>>
    /\ UNCHANGED <<outsidePage, p_language, page_state, gotos, rarity_result,
                   all_card_data>>

\* Lines 201-203, 220: the loop goes to the next rarity, or ends.
PageNextRarity ==
    IF p_rarity < Len(RARITY_MAPPING[p_language])
    THEN /\ p_rarity' = p_rarity + 1
         /\ p_attempt' = 0
         /\ p_pc' = "attempt"
    ELSE /\ p_pc' = "close"
         /\ UNCHANGED <<p_rarity, p_attempt>>

\* What one attempt can meet: page.goto raises; the page loads and shows
\* matching cards, or none; wait_for_selector times out.
AttemptOutcomes == {"goto_raises", "listings", "empty", "selector_timeout"}

\* A retry loop that never gives up.
attempts_left_unbounded(a) == TRUE

\* Line 203: for attempt in range(Config.MAX_RETRIES)
attempts_left(a) == a + 1 < MAX_RETRIES

\* fetch_and_process_page (lines 251-268): the listings of the page; any
\* exception, the timeout of wait_for_selector included, gives [].
fetch_and_process_page(outcome) == IF outcome = "listings" THEN "listings" ELSE "empty"

\* Lines 204-218: one attempt. A page.goto that raises is followed by the
\* back-off sleep and the next attempt, if any; otherwise the results (if
\* any) are collected and the retry loop is left (break).
PageAttempt(outcome) ==
    /\ p_pc = "attempt"
    /\ gotos' = [gotos EXCEPT ![p_rarity] = @ + 1]
    /\ IF outcome = "goto_raises"
       THEN /\ rarity_result' = [rarity_result EXCEPT ![p_rarity] = "failed"]
            /\ UNCHANGED all_card_data
            /\ IF attempts_left(p_attempt)
               THEN /\ p_attempt' = p_attempt + 1
                    /\ UNCHANGED <<p_pc, p_rarity>>
               ELSE PageNextRarity
       ELSE /\ rarity_result' = [rarity_result EXCEPT ![p_rarity] = outcome]
            /\ all_card_data' =
                  IF fetch_and_process_page(outcome) = "listings"
                  THEN all_card_data \cup {p_rarity} ELSE all_card_data
            /\ PageNextRarity
    /\ UNCHANGED <<outsidePage, playwright_sem, p_language, page_state, p_exc>>

\* Lines 220-222: await page.close(), leave playwright_sem, return.
PageClose ==
    /\ p_pc = "close"
    /\ page_state' = "closed"
    /\ playwright_sem' = playwright_sem + 1
    /\ p_pc' = "returned"
    /\ UNCHANGED <<outsidePage, p_language, p_rarity, p_attempt, gotos,
                   rarity_result, all_card_data, p_exc>>

-----------------------------------------------------------------------------
(* The page-holding section of fetch_tcgplayer_data (scraper.py): the      *)
(* invocations of all the queries and runs alive in the event loop share   *)
(* the module-level playwright_sem. A coroutine runs without interruption  *)
(* between two awaits, so acquire's test and decrement are one step.       *)

Invocations == 1..NumInvocations

SemIdle == section = [t \in Invocations |-> "before"]

\* An acquire that takes no permit.
sem_acquire_keeps(value) == value

\* asyncio.Semaphore.acquire, once the value is positive.
sem_acquire(value) == value - 1

\* Line 196: async with playwright_sem, entered.
SectionEnter(t) ==
    /\ section[t] = "before"
    /\ playwright_sem > 0
    /\ playwright_sem' = sem_acquire(playwright_sem)
    /\ section' = [section EXCEPT ![t] = "inside"]
    /\ UNCHANGED outsideSem

\* Lines 196-220: the block is left, by its end or by an exception.
SectionLeave(t) ==
    /\ section[t] = "inside"
    /\ playwright_sem' = playwright_sem + 1
    /\ section' = [section EXCEPT ![t] = "after"]
    /\ UNCHANGED outsideSem

-----------------------------------------------------------------------------
(* Listing extraction (scraper.py, extract_card_data and                   *)
(* extract_product_id). Texts are sequences of characters.                 *)

Digits == <<"0", "1", "2", "3", "4", "5", "6", "7", "8", "9">>
IsDigit(c) == \E i \in DOMAIN Digits : Digits[i] = c
DigitValue(c) == (CHOOSE i \in DOMAIN Digits : Digits[i] = c) - 1

UpperCase == <<"M", "E", "W", "X", "N", "A">>
LowerCase == <<"m", "e", "w", "x", "n", "a">>

\* str.lower()
lower_char(c) ==
    IF \E i \in DOMAIN UpperCase : UpperCase[i] = c
    THEN LowerCase[CHOOSE i \in DOMAIN UpperCase : UpperCase[i] = c]
    ELSE c
lower(text) == [i \in DOMAIN text |-> lower_char(text[i])]

\* str.strip()
RECURSIVE lstrip(_)
lstrip(text) ==
    IF text # <<>> /\ text[1] = " " THEN lstrip(Tail(text)) ELSE text
RECURSIVE rstrip(_)
rstrip(text) ==
    IF text # <<>> /\ text[Len(text)] = " "
    THEN rstrip(SubSeq(text, 1, Len(text) - 1)) ELSE text
strip(text) == rstrip(lstrip(text))

\* str.replace(c, '')
remove_char(text, c) == SelectSeq(text, LAMBDA x : x # c)

\* str.split(): the words between runs of whitespace.
RECURSIVE split_from(_, _, _)
split_from(text, word, words) ==
    IF text = <<>>
    THEN IF word = <<>> THEN words ELSE Append(words, word)
    ELSE IF text[1] = " "
    THEN split_from(Tail(text), <<>>, IF word = <<>> THEN words ELSE Append(words, word))
    ELSE split_from(Tail(text), Append(word, text[1]), words)
split(text) == split_from(text, <<>>, <<>>)

\* term in text
contains(text, term) ==
    \E i \in 1..(Len(text) - Len(term) + 1) : SubSeq(text, i, i + Len(term) - 1) = term

\* The number a run of digits denotes.
RECURSIVE digits_value(_)
digits_value(ds) ==
    IF ds = <<>> THEN 0
    ELSE 10 * digits_value(SubSeq(ds, 1, Len(ds) - 1)) + DigitValue(ds[Len(ds)])

AllDigits(ds) == ds # <<>> /\ \A i \in DOMAIN ds : IsDigit(ds[i])

\* float(text) for the texts met here: an optional sign, digits, and at
\* most two decimals give a number (counted in cents); "nan" and "inf" in
\* any case give the two special floats; anything else is a ValueError.
float_of(text) ==
    LET negative == text # <<>> /\ text[1] = "-"
        body == IF negative THEN Tail(text) ELSE text
        dots == {i \in DOMAIN body : body[i] = "."}
        whole == IF dots = {} THEN body
                 ELSE SubSeq(body, 1, (CHOOSE i \in dots : TRUE) - 1)
        decimals == IF dots = {} THEN <<>>
                    ELSE SubSeq(body, (CHOOSE i \in dots : TRUE) + 1, Len(body))
        cents == 100 * digits_value(whole)
                 + (IF Len(decimals) = 2 THEN digits_value(decimals)
                    ELSE IF Len(decimals) = 1 THEN 10 * digits_value(decimals) ELSE 0)
    IN  IF lower(body) = <<"n", "a", "n">> THEN [kind |-> "nan", cents |-> 0]
        ELSE IF lower(body) = <<"i", "n", "f">>
        THEN [kind |-> "inf", cents |-> IF negative THEN -1 ELSE 1]
        ELSE IF /\ Cardinality(dots) <= 1
                /\ AllDigits(whole)
                /\ Len(decimals) <= 2
                /\ \A i \in DOMAIN decimals : IsDigit(decimals[i])
        THEN [kind |-> "number", cents |-> IF negative THEN 0 - cents ELSE cents]
        ELSE [kind |-> "ValueError", cents |-> 0]

\* x <= dollars and x > dollars on floats: both are false for nan.
float_le(x, dollars) ==
    \/ x.kind = "number" /\ x.cents <= 100 * dollars
    \/ x.kind = "inf" /\ x.cents < 0
float_gt(x, dollars) ==
    \/ x.kind = "number" /\ x.cents > 100 * dollars
    \/ x.kind = "inf" /\ x.cents > 0

MAX_PRICE == 100000

\* Line 308: the price is rejected.
price_rejected(price_value) == float_le(price_value, 0) \/ float_gt(price_value, MAX_PRICE)

Product == <<"/", "p", "r", "o", "d", "u", "c", "t", "/">>

\* Lines 349-353: re.search(r'/product/(\d+)/', url), the digits it
\* captures or <<>> for no match. (The second pattern, '/product/(\d+)/pokemon',
\* matches no url the first one does not.)
product_matches(url) ==
    {<<i, j>> \in (DOMAIN url) \X (DOMAIN url) :
        /\ i + Len(Product) <= j
        /\ SubSeq(url, i, i + Len(Product) - 1) = Product
        /\ AllDigits(SubSeq(url, i + Len(Product), j - 1))
        /\ url[j] = "/"}
extract_product_id(url) ==
    IF url = <<>> \/ product_matches(url) = {} THEN <<>>
    ELSE LET m == CHOOSE m \in product_matches(url) :
                      \A n \in product_matches(url) : m[1] <= n[1]
         IN  SubSeq(url, m[1] + Len(Product), m[2] - 1)

\* find() found no such element.
Missing == <<"<missing>">>

NoCard == [present |-> FALSE, card_name |-> <<>>, set_name |-> <<>>,
           language |-> None, rarity |-> None,
           tcgplayer_price |-> [kind |-> "number", cents |-> 0], product_id |-> <<>>]

\* extract_card_data (lines 285-341)
extract_card_data(el, card_details, rarity) ==
    IF Missing \in {el.title, el.price, el.set_name, el.product_link}
    THEN NoCard
    ELSE LET price_text == remove_char(remove_char(strip(el.price), "$"), ",")
             price_value == float_of(price_text)
             title_text == strip(el.title)
             search_terms == split(lower(card_details.name))
             product_id == extract_product_id(el.product_link)
         IN  IF price_value.kind = "ValueError" THEN NoCard
             ELSE IF price_rejected(price_value) THEN NoCard
             ELSE IF /\ card_details.name # <<>>
                     /\ ~\A i \in DOMAIN search_terms :
                            contains(lower(title_text), search_terms[i])
             THEN NoCard
             ELSE IF product_id = <<>> THEN NoCard
             ELSE [present |-> TRUE, card_name |-> title_text,
                   set_name |-> strip(el.set_name),
                   language |-> card_details.language, rarity |-> rarity,
                   tcgplayer_price |-> price_value, product_id |-> product_id]

\* The texts of the page elements and of the queries tried.
TitleTexts ==
    {<<"M", "e", "w", " ", "e", "x", " ", "1", "5", "1">>,
     <<"M", "E", "W", " ", "E", "X">>,
     <<" ", "M", "e", "w", "t", "w", "o", " ">>,
     <<>>}

PriceTexts ==
    {<<"$", "5", "0", ".", "0", "0">>,
     <<" ", "$", "1", ",", "2", "5", "0", ".", "0", "0">>,
     <<"$", "0", ".", "0", "0">>,
     <<"$", "1", "0", "0", ",", "0", "0", "0", ".", "0", "0">>,
     <<"$", "1", "0", "0", ",", "0", "0", "0", ".", "0", "1">>,
     <<"$", "N", "a", "N">>,
     <<"N", "/", "A">>,
     <<"-", "5">>,
     <<"$", "i", "n", "f">>}

SetTexts ==
    {<<"1", "5", "1">>}

Hrefs ==
    {<<"/", "p", "r", "o", "d", "u", "c", "t", "/", "1", "2", "3", "/", "p", "o", "k", "e", "m", "o", "n", "-", "m", "e", "w", "-", "e", "x">>,
     <<"/", "p", "r", "o", "d", "u", "c", "t", "/", "a", "b", "c", "/", "m", "e", "w">>,
     <<"/", "p", "r", "o", "d", "u", "c", "t", "/", "4", "5", "6">>,
     <<>>}

QueryNames ==
    {<<>>,
     <<"M", "e", "w", " ", "e", "x">>,
     <<"m", "e", "w", " ", " ", "E", "X", " ", "1", "5", "1">>}

CardElements ==
    [title : TitleTexts \cup {Missing}, price : PriceTexts \cup {Missing},
     set_name : SetTexts \cup {Missing}, product_link : Hrefs \cup {Missing}]

\* The queries fetch_tcgplayer_data passes on: a rarity of the language.
CardQueries ==
    {[name |-> n, language |-> lang, rarity |-> RARITY_MAPPING[lang][i]] :
        n \in QueryNames, lang \in Languages, i \in {1}}

ExtractIdle ==
    /\ card_element = [title |-> Missing, price |-> Missing, set_name |-> Missing,
                       product_link |-> Missing]
    /\ card_query = [name |-> <<>>, language |-> "English",
                     rarity |-> RARITY_MAPPING.English[1]]
    /\ card_data = NoCard
    /\ extracted = FALSE

\* A call of extract_card_data(card_element, card_details, rarity).
Extract ==
    /\ ~extracted
    /\ extracted' = TRUE
    /\ card_data' = extract_card_data(card_element, card_query, card_query.rarity)
    /\ UNCHANGED <<outsideExtract, card_element, card_query>>

-----------------------------------------------------------------------------
(* Stored cards (models.py, PokemonCard; views.py, _process_card_data and  *)
(* _save_card_to_db). A row keeps its prices as decimals, whose arithmetic *)
(* is exact here; the timestamps of a row are left out.                    *)

RECURSIVE gcd(_, _)
gcd(a, b) == IF b = 0 THEN a ELSE gcd(b, a % b)

\* n/d (d > 0) in lowest terms.
decimal_frac(n, d) ==
    LET g == gcd(IF n < 0 THEN 0 - n ELSE n, d)
    IN  [num |-> n \div g, den |-> d \div g]

MewEx == <<"M", "e", "w", " ", "e", "x">>

NoRow == [id |-> 0, card_name |-> <<>>, set_name |-> None, language |-> None,
          rarity |-> None, product_id |-> None,
          tcgplayer_price |-> NoField, psa_10_price |-> NoField]

\* unique_together (models.py, line 70)
key_of(card) == <<card.card_name, card.set_name, card.language, card.rarity>>

\* PokemonCard.price_delta (models.py, lines 76-81)
price_delta(card) ==
    IF ~card.psa_10_price.present \/ ~card.tcgplayer_price.present THEN NoField
    ELSE Present(card.psa_10_price.value - card.tcgplayer_price.value)

\* The percentage taken of the graded price.
profit_potential_of_graded(card) ==
    IF price_delta(card).present /\ card.psa_10_price.value > 0
    THEN Present(decimal_frac(price_delta(card).value * 100, card.psa_10_price.value))
    ELSE NoPercent

\* PokemonCard.profit_potential (models.py, lines 83-88): None without a
\* delta, and for a price that is None, 0 or negative.
profit_potential(card) ==
    IF price_delta(card).present /\ card.tcgplayer_price.value # 0
    THEN IF card.tcgplayer_price.value > 0
         THEN Present(decimal_frac(price_delta(card).value * 100,
                                   card.tcgplayer_price.value))
         ELSE NoPercent
    ELSE NoPercent

\* x or 0.0
value_or_zero(field) == IF field.present THEN field.value ELSE 0

\* _process_card_data (views.py, lines 100-116): the dict of a reconciled
\* card, None replaced by 0.0.
process_card_data(reconciled_card) ==
    [card_name |-> reconciled_card.card.card_name,
     set_name |-> reconciled_card.card.set_name,
     language |-> reconciled_card.card.language,
     rarity |-> reconciled_card.card.rarity,
     tcgplayer_price |-> reconciled_card.card.tcgplayer_price,
     product_id |-> reconciled_card.card.product_id,
     psa_10_price |-> value_or_zero(reconciled_card.psa_10_price),
     price_delta |-> value_or_zero(reconciled_card.price_delta),
     profit_potential |-> IF reconciled_card.profit_potential.present
                          THEN reconciled_card.profit_potential.value
                          ELSE [num |-> 0, den |-> 1]]

\* A table that checks the key tuple only.
db_violates_key_only(table, row) ==
    \E other \in table : other.id # row.id /\ key_of(other) = key_of(row)

\* The unique constraints of the table: unique_together on the key tuple
\* (models.py, line 70) and unique=True on product_id (line 17), which
\* NULLs do not break.
db_violates(table, row) ==
    \E other \in table :
        /\ other.id # row.id
        /\ \/ key_of(other) = key_of(row)
           \/ row.product_id # None /\ other.product_id = row.product_id

\* An INSERT or UPDATE of one row: refused with IntegrityError, the table
\* as it was, when it breaks a constraint.
db_write(table, row) ==
    IF db_violates(table, row)
    THEN [raised |-> "IntegrityError", cards |-> table, row |-> NoRow]
    ELSE [raised |-> NoException,
          cards |-> {c \in table : c.id # row.id} \cup {row},
          row |-> row]

\* The rows update_or_create looks up (views.py, lines 127-130).
matching(table, card_dict) == {row \in table : key_of(row) = key_of(card_dict)}

\* The row that create() inserts: the key and the defaults; rows are never
\* deleted, so the next id is the number of rows plus one.
new_row(table, card_dict) ==
    [id |-> Cardinality(table) + 1,
     card_name |-> card_dict.card_name, set_name |-> card_dict.set_name,
     language |-> card_dict.language, rarity |-> card_dict.rarity,
     product_id |-> card_dict.product_id,
     tcgplayer_price |-> Present(card_dict.tcgplayer_price),
     psa_10_price |-> Present(card_dict.psa_10_price)]

\* An update that leaves the row as it finds it.
updated_row_stale(row, card_dict) == row

\* The defaults set on the row found (views.py, lines 131-138).
updated_row(row, card_dict) ==
    [row EXCEPT !.tcgplayer_price = Present(card_dict.tcgplayer_price),
                !.product_id = card_dict.product_id,
                !.psa_10_price = Present(card_dict.psa_10_price)]

\* PokemonCard.objects.update_or_create (views.py, lines 126-139), run
\* without another writer in between.
update_or_create(table, card_dict) ==
    IF matching(table, card_dict) = {}
    THEN db_write(table, new_row(table, card_dict))
    ELSE db_write(table, updated_row(CHOOSE row \in matching(table, card_dict) : TRUE,
                                     card_dict))

\* Lines 125-140: the try block; the connection may fail (fault).
save_card_try(table, card_dict, fault) ==
    IF fault THEN [raised |-> "OperationalError", cards |-> table, row |-> NoRow]
    ELSE update_or_create(table, card_dict)

\* A handler that lets the exception through.
save_card_except_reraise(outcome) == outcome

\* Lines 141-143: except Exception: log and return None.
save_card_except(outcome) ==
    IF outcome.raised # NoException
    THEN [raised |-> NoException, cards |-> outcome.cards, row |-> NoRow]
    ELSE outcome

\* _save_card_to_db (views.py, lines 121-143)
save_card_to_db(table, card_dict, fault) ==
    save_card_except(save_card_try(table, card_dict, fault))

\* A listing the marketplace fetcher is made to answer.
stub_listing(r, p, i) ==
    [card_name |-> MewEx, set_name |-> "Pokemon Card 151", language |-> "Japanese",
     rarity |-> r, tcgplayer_price |-> p, product_id |-> i]

StubListings ==
    {stub_listing("Ultra Rare", 50, "123"), stub_listing("Ultra Rare", 40, "123"),
     stub_listing("Art Rare", 50, "123"), stub_listing("Art Rare", 40, "456")}

\* The answers of the marketplace fetcher: nothing, one listing, the same
\* card at two prices, two cards with one product_id, two cards.
StubAnswers ==
    {<<>>,
     <<stub_listing("Ultra Rare", 50, "123")>>,
     <<stub_listing("Ultra Rare", 50, "123"), stub_listing("Ultra Rare", 40, "123")>>,
     <<stub_listing("Art Rare", 50, "123"), stub_listing("Ultra Rare", 50, "123")>>,
     <<stub_listing("Art Rare", 40, "456"), stub_listing("Ultra Rare", 40, "123")>>}

\* Rows the table may hold before the requests modelled: one without
\* product_id and prices, one whose price is 0, one of an earlier scrape.
LegacyRow == [NoRow EXCEPT !.id = 1, !.card_name = MewEx,
                           !.set_name = "Pokemon Card 151",
                           !.language = "Japanese", !.rarity = "Unknown"]
ZeroRow == [LegacyRow EXCEPT !.id = 2, !.rarity = "Promo", !.product_id = "789",
                             !.tcgplayer_price = Present(0),
                             !.psa_10_price = Present(5)]
OldRow == [LegacyRow EXCEPT !.id = 3, !.rarity = "Ultra Rare", !.product_id = "123",
                            !.tcgplayer_price = Present(40),
                            !.psa_10_price = Present(86)]

InitialStores == {{}, {LegacyRow, ZeroRow, OldRow}}

StoreIdle == cards = {}

-----------------------------------------------------------------------------
(* One request at a time in detail (views.py): scrape_and_save and         *)
(* refresh with their parameters, the cards scraper.main returns, the      *)
(* table of stored cards and the response cache. The fetchers below        *)
(* scraper.main answer as the stub says; the viewset semaphore of a single *)
(* request is free.                                                        *)

\* searchQuery as it arrives: missing (the default ''), blank, a name
\* with a blank before it.
RawQueries == {<<>>, <<" ">>, <<" ">> \o MewEx}

\* set_name: missing, a name of ALL_SETS, a name outside it.
RequestSets == {""} \cup ALL_SETS \cup {"Pokemon Card 151"}

\* pk of a refresh: the ids 1 and 3, an id of no row, a text that is no
\* number.
Pks == {[wellformed |-> TRUE, id |-> i] : i \in {1, 3, 9}}
       \cup {[wellformed |-> FALSE, id |-> 0]}

NoPk == [wellformed |-> FALSE, id |-> 0]

\* The parameter taken as it comes.
search_query_unstripped(raw) == raw

\* Line 168: request.query_params.get('searchQuery', '').strip()
search_query(raw) == strip(raw)

\* Line 181: cache_key = f"scrape:{search_query}:{set_name}:{language}"
scrape_cache_key(q, s, l) == <<q, s, l>>

\* Line 87: the timeout, in seconds, given to cache.set at line 234.
CACHE_TIMEOUT == 3600

\* The seconds that may pass between two requests: half an hour, two hours
\* and twenty-five hours.
RequestGaps == {CACHE_TIMEOUT \div 2, 2 * CACHE_TIMEOUT, 25 * CACHE_TIMEOUT}

\* Time is observed through the response cache only: with nothing cached
\* one gap stands for all.
gaps_for(cache) == IF cache = {} THEN {CACHE_TIMEOUT \div 2} ELSE RequestGaps

\* cache.set(cache_key, response_data, self.CACHE_TIMEOUT): the entry
\* replaces the one of the same key and starts at age 0.
cache_set(cache, key, response_data) ==
    {e \in cache : e.key # key}
    \cup {[key |-> key, response |-> response_data, age |-> 0]}

\* An entry is served by cache.get as long as its timeout has not passed.
cache_alive(e) == e.age < CACHE_TIMEOUT

\* The response cache after gap more seconds: expired entries are gone.
cache_after(cache, gap) ==
    {e \in {[d EXCEPT !.age = d.age + gap] : d \in cache} : cache_alive(e)}

\* What the fetchers answer: scraper.main raises, or the marketplace
\* fetcher returns listings and the auction fetcher one estimate for each.
Stubs ==
    {[raises |-> TRUE, listings |-> <<>>, estimate |-> Absent]}
    \cup {[raises |-> FALSE, listings |-> ls, estimate |-> e] :
             ls \in StubAnswers, e \in {Absent, Present(80)}}

\* scraper.main (scraper.py, lines 516-539) over the stubbed fetchers: the
\* listings reconciled by process_card_batch.
main_result(fetchers) ==
    [i \in DOMAIN fetchers.listings |->
        reconciled(fetchers.listings[i], fetchers.estimate)]

NoResponse == [status |-> 0, message |-> None, processed |-> 0, query |-> <<>>,
               crashed |-> FALSE]

\* Response({'error': ...}, status=...)
error_response(code, text, q) ==
    [NoResponse EXCEPT !.status = code, !.message = text, !.query = q]

\* An exception that leaves the view: Django answers 500.
crash_response == [NoResponse EXCEPT !.status = HTTP_500_INTERNAL_SERVER_ERROR,
                                     !.message = "UnboundLocalError",
                                     !.crashed = TRUE]

\* Lines 229-235: 'Successfully processed n cards'
success_response(n) ==
    [NoResponse EXCEPT !.status = HTTP_200_OK,
                       !.message = "Successfully processed", !.processed = n]

NoDetailedReq == [kind |-> None, raw |-> <<>>, searchQuery |-> <<>>, set_name |-> "",
                  language |-> "Japanese", pk |-> NoPk, card |-> NoRow]

NoPrev == [req |-> NoDetailedReq, status |-> 0, invoked |-> FALSE,
           response |-> NoResponse, gap |-> 0]

RequestIdle ==
    /\ stub = [raises |-> TRUE, listings |-> <<>>, estimate |-> Absent]
    /\ q_pc = "idle"
    /\ q_count = 0
    /\ q_req = NoDetailedReq
    /\ q_log = NoLog
    /\ q_invoked = FALSE
    /\ q_results = <<>>
    /\ q_idx = 0
    /\ q_saved = 0
    /\ q_upserts = <<>>
    /\ q_response = NoResponse
    /\ q_cache = {}
    /\ cards_before = {}
    /\ q_prev = NoPrev

\* A request arrives after the one before it was answered.
Arrive(r, gap) ==
    /\ q_pc \in {"idle", "done"}
    /\ q_count < NumRequests
    /\ q_count' = q_count + 1
    /\ q_prev' = IF q_pc = "done"
                 THEN [req |-> q_req, status |-> q_response.status,
                       invoked |-> q_invoked, response |-> q_response,
                       gap |-> gap]
                 ELSE NoPrev
    /\ q_cache' = cache_after(q_cache, gap)
    /\ q_req' = r
    /\ cards_before' = cards
    /\ q_invoked' = FALSE
    /\ q_results' = <<>>
    /\ q_idx' = 0
    /\ q_saved' = 0
    /\ q_upserts' = <<>>

\* The request is answered.
Answer(resp) ==
    /\ q_response' = resp
    /\ q_pc' = "done"

(* ---- scrape_and_save ----                                               *)

\* Lines 166-186: parameters, blank check, response cache lookup, log.
ScrapeAndSaveBegin ==
    \E raw \in RawQueries, s \in RequestSets, gap \in gaps_for(q_cache) :
        LET q == search_query(raw)
            key == scrape_cache_key(q, s, "Japanese")
        IN  /\ Arrive([NoDetailedReq EXCEPT !.kind = "scrape", !.raw = raw,
                                            !.searchQuery = q, !.set_name = s],
                      gap)
            /\ IF q = <<>>
               THEN /\ Answer(error_response(HTTP_400_BAD_REQUEST,
                                             "Search query is required", <<>>))
                    /\ q_log' = NoLog
               ELSE IF \E e \in q_cache' : e.key = key
               THEN /\ Answer((CHOOSE e \in q_cache' : e.key = key).response)
                    /\ q_log' = NoLog
               ELSE /\ q_log' = CreateLog(now)
                    /\ q_pc' = "details"
                    /\ q_response' = NoResponse
            /\ UNCHANGED <<outsideRequest, cards, stub>>

\* Lines 189-191, 237-243: _create_card_details; its ValueError is
\* answered 400.
ScrapeAndSaveDetails ==
    /\ q_pc = "details"
    /\ IF create_card_details_raises(q_req.set_name)
       THEN /\ q_log' = fail(q_log, "Input validation error", now)
            /\ Answer(error_response(HTTP_400_BAD_REQUEST, "Invalid set_name", <<>>))
       ELSE /\ q_pc' = "scraping"
            /\ UNCHANGED <<q_log, q_response>>
    /\ UNCHANGED <<outsideRequest, cards, stub, q_count, q_req, q_invoked, q_results,
                   q_idx, q_saved, q_upserts, q_cache, cards_before, q_prev>>

\* Lines 193-208: scraper.main raises, returns nothing, or returns cards.
ScrapeAndSaveMain ==
    /\ q_pc = "scraping"
    /\ q_req.kind = "scrape"
    /\ q_invoked' = TRUE
    /\ IF stub.raises
       THEN /\ q_log' = on_scraper_error(q_log, now)
            /\ Answer(error_response(HTTP_500_INTERNAL_SERVER_ERROR,
                                     "Scraper error", <<>>))
            /\ UNCHANGED q_results
       ELSE IF main_result(stub) = <<>>
       THEN /\ q_log' = on_no_data(q_log, now)
            /\ Answer(error_response(HTTP_404_NOT_FOUND, "No data found for",
                                     q_req.searchQuery))
            /\ UNCHANGED q_results
       ELSE /\ q_results' = main_result(stub)
            /\ q_pc' = "saving"
            /\ UNCHANGED <<q_log, q_response>>
    /\ UNCHANGED <<outsideRequest, cards, stub, q_count, q_req, q_idx, q_saved,
                   q_upserts, q_cache, cards_before, q_prev>>

\* What is remembered of one _save_card_to_db call.
upsert_made(record, card_dict, fault, outcome, table) ==
    [record |-> record, card_dict |-> card_dict, fault |-> fault,
     clash |-> \E other \in table : /\ key_of(other) # key_of(card_dict)
                                    /\ other.product_id = card_dict.product_id,
     returned |-> outcome.row # NoRow,
     kept |-> outcome.cards = table]

\* Lines 211-218, 244-250: one iteration of the save loop. An exception
\* other than ValueError would leave the loop for the outer handler.
ScrapeAndSaveCard ==
    /\ q_pc = "saving"
    /\ q_req.kind = "scrape"
    /\ q_idx < Len(q_results)
    /\ \E fault \in BOOLEAN :
        LET card_dict == process_card_data(q_results[q_idx + 1])
            outcome == save_card_to_db(cards, card_dict, fault)
        IN  /\ cards' = outcome.cards
            /\ q_upserts' = Append(q_upserts,
                                   upsert_made(q_results[q_idx + 1], card_dict,
                                               fault, outcome, cards))
            /\ IF outcome.raised # NoException
               THEN /\ q_log' = fail(q_log, "str(e)", now)
                    /\ Answer(error_response(HTTP_500_INTERNAL_SERVER_ERROR,
                                             "str(e)", <<>>))
                    /\ UNCHANGED <<q_idx, q_saved>>
               ELSE /\ q_idx' = q_idx + 1
                    /\ q_saved' = IF outcome.row # NoRow THEN q_saved + 1 ELSE q_saved
                    /\ UNCHANGED <<q_log, q_response, q_pc>>
    /\ UNCHANGED <<outsideRequest, stub, q_count, q_req, q_invoked, q_results,
                   q_cache, cards_before, q_prev>>

\* Lines 220-235: after the loop.
ScrapeAndSaveEnd ==
    /\ q_pc = "saving"
    /\ q_req.kind = "scrape"
    /\ q_idx = Len(q_results)
    /\ q_log' = finish_scrape(q_log, Len(q_results), q_saved, now)
    /\ IF q_saved = 0
       THEN /\ Answer(error_response(HTTP_500_INTERNAL_SERVER_ERROR,
                                     "Failed to save any card data", <<>>))
            /\ UNCHANGED q_cache
       ELSE /\ Answer(success_response(q_saved))
            /\ q_cache' = cache_set(q_cache,
                                    scrape_cache_key(q_req.searchQuery,
                                                     q_req.set_name, q_req.language),
                                    success_response(q_saved))
    /\ UNCHANGED <<outsideRequest, cards, stub, q_count, q_req, q_invoked, q_results,
                   q_idx, q_saved, q_upserts, cards_before, q_prev>>

(* ---- refresh ----                                                       *)

\* Line 261: PokemonCard.objects.select_for_update().get(pk=pk)
get_card(table, pk, fault) ==
    IF ~pk.wellformed THEN [raised |-> "ValueError", row |-> NoRow]
    ELSE IF fault THEN [raised |-> "OperationalError", row |-> NoRow]
    ELSE IF \E row \in table : row.id = pk.id
    THEN [raised |-> NoException, row |-> CHOOSE row \in table : row.id = pk.id]
    ELSE [raised |-> "DoesNotExist", row |-> NoRow]

\* Lines 257-269, 316-327: look the card up. DoesNotExist is answered 404;
\* the handler of any other exception calls scrape_log.fail before
\* scrape_log is bound, and the UnboundLocalError leaves the view.
RefreshBegin ==
    \E pk \in Pks, fault \in BOOLEAN, gap \in gaps_for(q_cache) :
        LET got == get_card(cards, pk, fault) IN
        /\ Arrive([NoDetailedReq EXCEPT !.kind = "refresh", !.pk = pk,
                                        !.card = got.row], gap)
        /\ IF got.raised = "DoesNotExist"
           THEN /\ Answer(error_response(HTTP_404_NOT_FOUND, "Card not found", <<>>))
                /\ q_log' = NoLog
           ELSE IF got.raised # NoException
           THEN /\ Answer(crash_response)
                /\ q_log' = NoLog
           ELSE IF got.row.product_id = None
           THEN /\ Answer(error_response(HTTP_400_BAD_REQUEST,
                                         "Card missing product ID", <<>>))
                /\ q_log' = NoLog
           ELSE /\ q_log' = CreateLog(now)
                /\ q_pc' = "refreshing"
                /\ q_response' = NoResponse
        /\ UNCHANGED <<outsideRequest, cards, stub>>

\* Lines 271-294: scraper.main raises, returns nothing, or returns cards.
RefreshMain ==
    /\ q_pc = "refreshing"
    /\ q_invoked' = TRUE
    /\ IF stub.raises
       THEN /\ q_log' = on_scraper_error(q_log, now)
            /\ Answer(error_response(HTTP_500_INTERNAL_SERVER_ERROR,
                                     "Scraper error", <<>>))
            /\ UNCHANGED q_results
       ELSE IF main_result(stub) = <<>>
       THEN /\ q_log' = fail(q_log, "No updated data found", now)
            /\ Answer(error_response(HTTP_404_NOT_FOUND, "No updated data found",
                                     <<>>))
            /\ UNCHANGED q_results
       ELSE /\ q_results' = main_result(stub)
            /\ q_pc' = "updating"
            /\ UNCHANGED <<q_log, q_response>>
    /\ UNCHANGED <<outsideRequest, cards, stub, q_count, q_req, q_idx, q_saved,
                   q_upserts, q_cache, cards_before, q_prev>>

\* Lines 297-298: the upsert of updated_data[0].
RefreshCard ==
    /\ q_pc = "updating"
    /\ \E fault \in BOOLEAN :
        LET card_dict == process_card_data(q_results[1])
            outcome == save_card_to_db(cards, card_dict, fault)
        IN  /\ cards' = outcome.cards
            /\ q_upserts' = Append(q_upserts,
                                   upsert_made(q_results[1], card_dict, fault,
                                               outcome, cards))
            /\ IF outcome.raised # NoException
               THEN /\ q_log' = fail(q_log, "str(e)", now)
                    /\ Answer(error_response(HTTP_500_INTERNAL_SERVER_ERROR,
                                             "str(e)", <<>>))
                    /\ UNCHANGED <<q_idx, q_saved>>
               ELSE /\ q_idx' = 1
                    /\ q_saved' = IF outcome.row # NoRow THEN 1 ELSE 0
                    /\ q_pc' = "invalidate"
                    /\ UNCHANGED <<q_log, q_response>>
    /\ UNCHANGED <<outsideRequest, stub, q_count, q_req, q_invoked, q_results,
                   q_cache, cards_before, q_prev>>

\* Lines 300-307, 321-327: cache.delete_pattern (an AttributeError on a
\* cache backend without it is caught by the outer except: fail, 500),
\* then complete(1, 1) and the 200 response.
RefreshEnd ==
    /\ q_pc = "invalidate"
    /\ \/ /\ q_log' = fail(q_log, "str(e)", now)
          /\ Answer(error_response(HTTP_500_INTERNAL_SERVER_ERROR, "str(e)", <<>>))
          /\ UNCHANGED q_cache
       \/ /\ q_cache' = {e \in q_cache :
                            e.key # scrape_cache_key(q_req.card.card_name,
                                                     q_req.card.set_name,
                                                     q_req.card.language)}
          /\ q_log' = refresh_complete(q_log, q_saved, now)
          /\ Answer([NoResponse EXCEPT !.status = HTTP_200_OK])
    /\ UNCHANGED <<outsideRequest, cards, stub, q_count, q_req, q_invoked, q_results,
                   q_idx, q_saved, q_upserts, cards_before, q_prev>>

-----------------------------------------------------------------------------
(* Concurrent upserts (views.py, _save_card_to_db): update_or_create is a  *)
(* SELECT followed by an INSERT or an UPDATE, and the statements of        *)
(* several requests interleave on the one table.                           *)

Writers == 1..NumWriters

\* The dicts the writers save.
CardDicts ==
    {process_card_data(reconciled(l, e)) : l \in StubListings, e \in {Absent, Present(80)}}

NoDict == process_card_data(reconciled(NoRow, Absent))

NoOutcome == [returned |-> FALSE, raised |-> NoException, kept |-> TRUE, raced |-> FALSE]

WriterIdle ==
    /\ w_pc = [w \in Writers |-> "idle"]
    /\ w_card_dict = [w \in Writers |-> NoDict]
    /\ w_target = [w \in Writers |-> 0]
    /\ w_outcome = [w \in Writers |-> NoOutcome]

\* The call ends: what it returned, what was caught, whether the table is
\* as the failing statement found it.
WriterDone(w, outcome) ==
    /\ w_pc' = [w_pc EXCEPT ![w] = "done"]
    /\ w_outcome' = [w_outcome EXCEPT ![w] =
           [@ EXCEPT !.returned = save_card_except(outcome).row # NoRow,
                     !.raised = outcome.raised,
                     !.kept = outcome.cards = cards]]

\* get_or_create: the SELECT by the key tuple; the connection may fail.
UpsertGet(w) ==
    /\ w_pc[w] = "idle"
    /\ \E card_dict \in CardDicts, fault \in BOOLEAN :
        /\ w_card_dict' = [w_card_dict EXCEPT ![w] = card_dict]
        /\ IF fault
           THEN /\ WriterDone(w, save_card_try(cards, card_dict, TRUE))
                /\ UNCHANGED w_target
           ELSE IF matching(cards, card_dict) = {}
           THEN /\ w_pc' = [w_pc EXCEPT ![w] = "create"]
                /\ UNCHANGED <<w_target, w_outcome>>
           ELSE /\ w_pc' = [w_pc EXCEPT ![w] = "update"]
                /\ w_target' = [w_target EXCEPT ![w] =
                       (CHOOSE row \in matching(cards, card_dict) : TRUE).id]
                /\ UNCHANGED w_outcome
    /\ UNCHANGED <<outsideWriter, cards>>

\* get_or_create: the INSERT; on IntegrityError the SELECT again, and the
\* error is raised when there is still no row.
UpsertCreate(w) ==
    /\ w_pc[w] = "create"
    /\ LET outcome == db_write(cards, new_row(cards, w_card_dict[w])) IN
       IF outcome.raised = NoException
       THEN /\ cards' = outcome.cards
            /\ WriterDone(w, outcome)
            /\ UNCHANGED w_target
       ELSE IF matching(cards, w_card_dict[w]) = {}
       THEN /\ WriterDone(w, outcome)
            /\ UNCHANGED <<cards, w_target>>
       ELSE /\ w_pc' = [w_pc EXCEPT ![w] = "update"]
            /\ w_target' = [w_target EXCEPT ![w] =
                   (CHOOSE row \in matching(cards, w_card_dict[w]) : TRUE).id]
            /\ w_outcome' = [w_outcome EXCEPT ![w].raced = TRUE]
            /\ UNCHANGED cards
    /\ UNCHANGED <<outsideWriter, w_card_dict>>

\* update_or_create: the defaults set on the row found, and its UPDATE.
UpsertUpdate(w) ==
    /\ w_pc[w] = "update"
    /\ LET row == CHOOSE c \in cards : c.id = w_target[w]
           outcome == db_write(cards, updated_row(row, w_card_dict[w]))
       IN  /\ cards' = outcome.cards
           /\ WriterDone(w, outcome)
    /\ UNCHANGED <<outsideWriter, w_card_dict, w_target>>

\* The components that follow start idle.
(* Runs of scraper.main that share the module-level price_cache            *)
(* (scraper.py:161, 516-539): each run loads the cache from                *)
(* price_cache.json when it starts and saves it when it ends; between the  *)
(* two it may call get and set. The set tasks of a bulk run are such runs: *)
(* they interleave at every await.                                         *)

MainIdle == m_pc = [m \in Runs |-> "idle"]

\* Line 517: await price_cache.async_load_cache()
MainLoad(m) ==
    /\ m_pc[m] = "idle"
    /\ m_pc' = [m_pc EXCEPT ![m] = "running"]
    /\ price_cache' = async_load_cache(cache_file)
    /\ lastOp' = [op |-> "load", key |-> None, result |-> None]
    /\ UNCHANGED <<outsideMain, cache_clock, written, cache_file, at_save>>

MainGet(m, k) ==
    /\ m_pc[m] = "running"
    /\ CacheGet(k)

MainSet(m, k, v) ==
    /\ m_pc[m] = "running"
    /\ CacheSet(k, v)

\* Lines 538-539: finally: await price_cache.save_cache()
MainSave(m) ==
    /\ m_pc[m] = "running"
    /\ m_pc' = [m_pc EXCEPT ![m] = "done"]
    /\ cache_file' = [exists |-> TRUE, content |-> cache_data(price_cache)]
    /\ at_save' = price_cache
    /\ lastOp' = [op |-> "save", key |-> None, result |-> None]
    /\ UNCHANGED <<outsideMain, price_cache, cache_clock, written>>

-----------------------------------------------------------------------------
(* process_card_batch with several queries (scraper.py:470-514): the       *)
(* fetch_tcgplayer_data tasks run under asyncio.gather and end in any      *)
(* order; the loop over zip(card_details_list, tcg_results) then           *)
(* reconciles the listings of each result.                                 *)

\* The names searched, by position in the batch.
BatchNames == <<(<<"mew", "ex">>), (<<"pikachu">>)>>

\* The batch of n queries.
batch_of(n) ==
    [i \in 1..n |-> [name |-> BatchNames[((i - 1) % Len(BatchNames)) + 1],
                     set_name |-> "Pokemon Card 151", language |-> "Japanese"]]

listing_of(card_details, price) ==
    [card_name |-> card_details.name, set_name |-> card_details.set_name,
     language |-> card_details.language, tcgplayer_price |-> price]

\* How a fetch_tcgplayer_data task can end: it raises, or it returns no
\* listing, one, or two.
FetchAnswers(card_details) ==
    {[raised |-> TRUE, listings |-> <<>>],
     [raised |-> FALSE, listings |-> <<>>],
     [raised |-> FALSE, listings |-> <<listing_of(card_details, 50)>>],
     [raised |-> FALSE, listings |-> <<listing_of(card_details, 50),
                                       listing_of(card_details, 10)>>]}

\* What the auction site answers while a batch is reconciled.
BatchResponses ==
    {[kind |-> "response", status |-> HTTP_OK,
      html |-> <<[title_ok |-> TRUE, price |-> 80]>>],
     [kind |-> "response", status |-> HTTP_UNAVAILABLE, html |-> <<>>]}

NoFetch == [done |-> FALSE, raised |-> FALSE, listings |-> <<>>]

\* The result of an ended task: the exception, or the list returned.
task_result(f) == [raised |-> f.raised, listings |-> f.listings]

\* A gather that hands the results over in the order the tasks ended.
gather_as_completed(fetch, order) ==
    [i \in DOMAIN order |-> task_result(fetch[order[i]])]

\* Line 481: asyncio.gather(*tcg_tasks, return_exceptions=True): the
\* results, exceptions included, in the order of the tasks given.
gather(fetch, order) ==
    [i \in DOMAIN fetch |-> task_result(fetch[i])]

GatherIdle ==
    /\ card_details_list = <<>>
    /\ g_pc = "idle"
    /\ g_fetch = <<>>
    /\ g_order = <<>>
    /\ tcg_results = <<>>
    /\ g_i = 0
    /\ g_logged = <<>>

\* Lines 477-481: the tasks are created and awaited together.
GatherStart ==
    /\ g_pc = "idle"
    /\ g_pc' = "gather"
    /\ UNCHANGED <<outsideGather, batchVars, card_details_list, g_fetch, g_order,
                   tcg_results, g_i, g_logged>>

\* One of the pending fetches ends.
FetchEnds(i, answer) ==
    /\ g_pc = "gather"
    /\ ~g_fetch[i].done
    /\ g_fetch' = [g_fetch EXCEPT ![i] = [done |-> TRUE, raised |-> answer.raised,
                                          listings |-> answer.listings]]
    /\ g_order' = Append(g_order, i)
    /\ UNCHANGED <<outsideGather, batchVars, card_details_list, g_pc, tcg_results,
                   g_i, g_logged>>

\* Lines 481-484: gather returns when every task has ended; the loop over
\* the zip begins.
GatherReturns ==
    /\ g_pc = "gather"
    /\ \A i \in DOMAIN g_fetch : g_fetch[i].done
    /\ tcg_results' = gather(g_fetch, g_order)
    /\ g_pc' = "loop"
    /\ g_i' = 0
    /\ listings' = <<>>
    /\ b_idx' = 1
    /\ b_pc' = "loop"
    /\ UNCHANGED <<outsideGather, ebay_calls, all_price_data, card_details_list,
                   g_fetch, g_order, g_logged>>

\* Lines 484-490: the next pair of the zip. An exception is logged under
\* the name of the query at the same position and skipped, as is an empty
\* result.
GatherNext ==
    /\ g_pc = "loop"
    /\ b_idx > Len(listings)
    /\ g_i < Len(card_details_list) /\ g_i < Len(tcg_results)
    /\ g_i' = g_i + 1
    /\ LET tcg_result == tcg_results[g_i + 1] IN
       /\ g_logged' = IF tcg_result.raised
                      THEN Append(g_logged, card_details_list[g_i + 1].name)
                      ELSE g_logged
       /\ listings' = IF tcg_result.raised THEN <<>> ELSE tcg_result.listings
    /\ b_idx' = 1
    /\ UNCHANGED <<outsideGather, b_pc, ebay_calls, all_price_data,
                   card_details_list, g_pc, g_fetch, g_order, tcg_results>>

\* Lines 492-509: one listing of the current result.
GatherEbay(resp) ==
    /\ g_pc = "loop"
    /\ BatchEbay(resp)

\* Line 511: return all_price_data.
GatherEnd ==
    /\ g_pc = "loop"
    /\ b_idx > Len(listings)
    /\ ~(g_i < Len(card_details_list) /\ g_i < Len(tcg_results))
    /\ g_pc' = "done"
    /\ b_pc' = "done"
    /\ UNCHANGED <<outsideGather, listings, b_idx, ebay_calls, all_price_data,
                   card_details_list, g_fetch, g_order, tcg_results, g_i, g_logged>>

LateIdle == StoreIdle /\ RequestIdle /\ WriterIdle /\ MainIdle /\ GatherIdle

ExtIdle ==
    PersistIdle /\ PriceIdle /\ BatchIdle /\ PageIdle /\ SemIdle /\ ExtractIdle /\ LateIdle

-----------------------------------------------------------------------------
(* Specification SpecLog: one ScrapeLog row, finalizing calls with any     *)
(* arguments at any time.                                                  *)

LogIdle ==
    /\ now = 0
    /\ tlog = NoLog
    /\ lastCall = NoCall

InitLog == LogIdle /\ RunIdle /\ FetchIdle /\ EbayIdle /\ CacheIdle /\ ExtIdle

\* Time passes.
LogTick ==
    /\ now < MaxTime
    /\ now' = now + 1
    /\ UNCHANGED <<tlog, lastCall, outsideLog>>

LogCreate ==
    /\ tlog.status = None
    /\ tlog' = CreateLog(now)
    /\ UNCHANGED <<now, lastCall, outsideLog>>

LogComplete ==
    /\ tlog.status # None
    /\ \E a \in 0..MaxCount, u \in 0..MaxCount, f \in 0..MaxCount :
        /\ tlog' = complete(tlog, a, u, f, now)
        /\ lastCall' = [op |-> "complete", attempted |-> a, updated |-> u,
                        failedCnt |-> f, msg |-> None]
    /\ UNCHANGED <<now, outsideLog>>

LogFail ==
    /\ tlog.status # None
    /\ \E m \in Messages :
        /\ tlog' = fail(tlog, m, now)
        /\ lastCall' = [op |-> "fail", attempted |-> 0, updated |-> 0,
                        failedCnt |-> 0, msg |-> m]
    /\ UNCHANGED <<now, outsideLog>>

NextLog == LogTick \/ LogCreate \/ LogComplete \/ LogFail

SpecLog == InitLog /\ [][NextLog]_vars

-----------------------------------------------------------------------------
(* Specification SpecRun: NumRuns scrape_and_save / refresh requests served *)
(* concurrently (their coroutines interleave at every await). They share   *)
(* the response cache.                                                     *)

InitRun == LogIdle /\ RunIdle /\ FetchIdle /\ EbayIdle /\ CacheIdle /\ ExtIdle

NextRun ==
    \/ \E r \in Runs : SasStart(r)
    \/ \E r \in Runs : SasAcquire(r)
    \/ \E r \in Runs : SasScrape(r)
    \/ \E r \in Runs : SasSaveOne(r)
    \/ \E r \in Runs : SasFinish(r)
    \/ \E r \in Runs : RefStart(r)
    \/ \E r \in Runs : RefAcquire(r)
    \/ \E r \in Runs : RefScrape(r)
    \/ \E r \in Runs : RefSave(r)
    \/ \E r \in Runs : RefFinish(r)

SpecRun == InitRun /\ [][NextRun]_vars

-----------------------------------------------------------------------------
(* Specification SpecBulk: one scrape_all_sets request; its NumSets set    *)
(* tasks run interleaved under asyncio.gather. A bulk run shares no state  *)
(* with the other requests (it never touches the response cache).          *)

\* The request that carries the bulk run.
BulkRuns == {r \in Runs : \A q \in Runs : r <= q}

NextBulk ==
    \/ \E r \in BulkRuns : BulkStart(r)
    \/ \E r \in BulkRuns : BulkAcquire(r)
    \/ \E r \in BulkRuns, s \in Sets : BulkSetScrape(r, s)
    \/ \E r \in BulkRuns, s \in Sets : BulkSetSave(r, s)
    \/ \E r \in BulkRuns : BulkFinish(r)

SpecBulk == InitRun /\ [][NextBulk]_vars

-----------------------------------------------------------------------------
(* Specification SpecLoad: NumRuns requests of any kind served             *)
(* concurrently, each by its own viewset instance: scrape_and_save,        *)
(* refresh and scrape_all_sets requests side by side.                      *)

\* The calls of scraper.main that have started and not yet returned: the
\* one of each scrape_and_save or refresh request inside its semaphore, and
\* the one of each set task of a bulk run under asyncio.gather.
mains_in_progress ==
    {<<r, 0>> : r \in {q \in Runs : pc[q] = "scraping"}}
    \cup {rs \in Runs \X Sets :
               pc[rs[1]] = "gather" /\ task[rs[1]][rs[2]].pc = "scrape"}

NextLoad ==
    \/ \E r \in Runs : SasStart(r)
    \/ \E r \in Runs : SasAcquire(r)
    \/ \E r \in Runs : SasScrape(r)
    \/ \E r \in Runs : SasSaveOne(r)
    \/ \E r \in Runs : SasFinish(r)
    \/ \E r \in Runs : RefStart(r)
    \/ \E r \in Runs : RefAcquire(r)
    \/ \E r \in Runs : RefScrape(r)
    \/ \E r \in Runs : RefSave(r)
    \/ \E r \in Runs : RefFinish(r)
    \/ \E r \in Runs : BulkStart(r)
    \/ \E r \in Runs : BulkAcquire(r)
    \/ \E r \in Runs, s \in Sets : BulkSetScrape(r, s)
    \/ \E r \in Runs, s \in Sets : BulkSetSave(r, s)
    \/ \E r \in Runs : BulkFinish(r)

SpecLoad == InitRun /\ [][NextLoad]_vars

-----------------------------------------------------------------------------
-----------------------------------------------------------------------------
(* Specification SpecFetch: NumFetch marketplace fetches running           *)
(* concurrently on one event loop, and an observer counting the page.goto  *)
(* calls of one 60-second window.                                          *)

InitFetch == LogIdle /\ RunIdle /\ FetchIdle /\ EbayIdle /\ CacheIdle /\ ExtIdle

FetchSteps ==
    \/ \E t \in Fetches : FetchStart(t)
    \/ \E t \in Fetches : FetchOpenPage(t)
    \/ \E t \in Fetches : LimiterAcquire(t)
    \/ \E t \in Fetches : LimiterWake(t)
    \/ \E t \in Fetches : Goto(t)
    \/ \E t \in Fetches : BackoffWake(t)
    \/ Advance

NextFetch == FetchSteps \/ StartWindow

SpecFetch == InitFetch /\ [][NextFetch]_vars

\* The event loop runs every ready task and time passes.
FairSpecFetch == InitFetch /\ [][FetchSteps]_vars /\ WF_vars(FetchSteps)

-----------------------------------------------------------------------------
(* Specification SpecEbay: calls of get_ebay_psa10_price_async at any      *)
(* moments, and an observer counting the requests of one 60-second window. *)

InitEbay == LogIdle /\ RunIdle /\ FetchIdle /\ EbayIdle /\ CacheIdle /\ ExtIdle

NextEbay == EbayCall \/ EbayAdvance \/ EbayStartWindow

SpecEbay == InitEbay /\ [][NextEbay]_vars

-----------------------------------------------------------------------------
(* Specification SpecCache: get and set on one PriceCache as time passes.  *)

InitCache == LogIdle /\ RunIdle /\ FetchIdle /\ EbayIdle /\ CacheIdle /\ ExtIdle

NextCache ==
    \/ \E k \in Keys : CacheGet(k)
    \/ \E k \in Keys, v \in Values : CacheSet(k, v)
    \/ CacheTick

SpecCache == InitCache /\ [][NextCache]_vars

-----------------------------------------------------------------------------
(* Specification SpecRestart: one PriceCache that is written, read, saved  *)
(* to price_cache.json and loaded again as time passes.                    *)

InitRestart == LogIdle /\ RunIdle /\ FetchIdle /\ EbayIdle /\ CacheIdle /\ ExtIdle

NextRestart ==
    \/ \E k \in Keys : CacheGet(k)
    \/ \E k \in Keys, v \in Values : CacheSet(k, v)
    \/ CacheTick
    \/ SaveCache
    \/ LoadCache

SpecRestart == InitRestart /\ [][NextRestart]_vars

-----------------------------------------------------------------------------
(* Specification SpecShared: concurrent runs of scraper.main on the one    *)
(* price_cache of the module, while time passes.                           *)

NextShared ==
    \/ \E m \in Runs : MainLoad(m)
    \/ \E m \in Runs, k \in Keys : MainGet(m, k)
    \/ \E m \in Runs, k \in Keys, v \in Values : MainSet(m, k, v)
    \/ \E m \in Runs : MainSave(m)
    \/ CacheTick

SpecShared == InitRestart /\ [][NextShared]_vars

-----------------------------------------------------------------------------
(* Specification SpecPrices: calculate_average_price called on any list of *)
(* at most MaxPrices prices.                                               *)

InitPrices ==
    /\ LogIdle /\ RunIdle /\ FetchIdle /\ EbayIdle /\ CacheIdle
    /\ PersistIdle /\ BatchIdle /\ PageIdle /\ SemIdle /\ ExtractIdle /\ LateIdle
    /\ prices \in ListsUpTo(MaxPrices)
    /\ estimate = Absent
    /\ est_done = FALSE

NextPrices == Estimate

SpecPrices == InitPrices /\ [][NextPrices]_vars

-----------------------------------------------------------------------------
(* Specification SpecBatch: process_card_batch reconciles the listings of  *)
(* one marketplace result, eBay answering each request in any way.         *)

InitBatch ==
    /\ LogIdle /\ RunIdle /\ FetchIdle /\ EbayIdle /\ CacheIdle
    /\ PersistIdle /\ PriceIdle /\ PageIdle /\ SemIdle /\ ExtractIdle /\ LateIdle
    /\ listings \in ListingsUpTo(MaxListings)
    /\ b_pc = "idle"
    /\ b_idx = 0
    /\ ebay_calls = <<>>
    /\ all_price_data = <<>>

NextBatch ==
    \/ BatchStart
    \/ \E resp \in EbayResponses : BatchEbay(resp)
    \/ BatchReturn

SpecBatch == InitBatch /\ [][NextBatch]_vars

-----------------------------------------------------------------------------
(* Specification SpecGather: one process_card_batch call on a batch of up  *)
(* to NumQueries queries.                                                  *)

InitGather ==
    /\ LogIdle /\ RunIdle /\ FetchIdle /\ EbayIdle /\ CacheIdle
    /\ PersistIdle /\ PriceIdle /\ BatchIdle /\ PageIdle /\ SemIdle /\ ExtractIdle
    /\ StoreIdle /\ RequestIdle /\ WriterIdle /\ MainIdle
    /\ card_details_list \in {batch_of(n) : n \in 0..NumQueries}
    /\ g_pc = "idle"
    /\ g_fetch = [i \in DOMAIN card_details_list |-> NoFetch]
    /\ g_order = <<>>
    /\ tcg_results = <<>>
    /\ g_i = 0
    /\ g_logged = <<>>

NextGather ==
    \/ GatherStart
    \/ \E i \in DOMAIN g_fetch :
          \E answer \in FetchAnswers(card_details_list[i]) : FetchEnds(i, answer)
    \/ GatherReturns
    \/ GatherNext
    \/ \E resp \in BatchResponses : GatherEbay(resp)
    \/ GatherEnd

SpecGather == InitGather /\ [][NextGather]_vars

-----------------------------------------------------------------------------
(* Specification SpecPage: one fetch_tcgplayer_data call, each of its      *)
(* awaits ending in any of the ways it can.                                *)

InitPage == LogIdle /\ RunIdle /\ FetchIdle /\ EbayIdle /\ CacheIdle /\ ExtIdle

NextPage ==
    \/ \E lang \in Languages \cup {"Korean"} : PageStart(lang)
    \/ \E ok \in BOOLEAN : PageNew(ok)
    \/ \E ok \in BOOLEAN : PageRoute(ok)
    \/ \E outcome \in AttemptOutcomes : PageAttempt(outcome)
    \/ PageClose

SpecPage == InitPage /\ [][NextPage]_vars

-----------------------------------------------------------------------------
(* Specification SpecSem: NumInvocations fetch_tcgplayer_data invocations  *)
(* enter and leave their page-holding section in any order.                *)

InitSem == LogIdle /\ RunIdle /\ FetchIdle /\ EbayIdle /\ CacheIdle /\ ExtIdle

NextSem ==
    \/ \E t \in Invocations : SectionEnter(t)
    \/ \E t \in Invocations : SectionLeave(t)

SpecSem == InitSem /\ [][NextSem]_vars

-----------------------------------------------------------------------------
(* Specification SpecExtract: extract_card_data called on any page element *)
(* for any query.                                                          *)

InitExtract ==
    /\ LogIdle /\ RunIdle /\ FetchIdle /\ EbayIdle /\ CacheIdle
    /\ PersistIdle /\ PriceIdle /\ BatchIdle /\ PageIdle /\ SemIdle /\ LateIdle
    /\ card_element \in CardElements
    /\ card_query \in CardQueries
    /\ card_data = NoCard
    /\ extracted = FALSE

NextExtract == Extract

SpecExtract == InitExtract /\ [][NextExtract]_vars

-----------------------------------------------------------------------------
(* Specification SpecRequest: scrape_and_save and refresh requests, one    *)
(* after the other, on a table that holds any of the initial stores, the   *)
(* fetchers answering as the stub of the run says.                         *)

InitRequest ==
    /\ LogIdle /\ RunIdle /\ FetchIdle /\ EbayIdle /\ CacheIdle
    /\ PersistIdle /\ PriceIdle /\ BatchIdle /\ PageIdle /\ SemIdle /\ ExtractIdle
    /\ WriterIdle /\ MainIdle /\ GatherIdle
    /\ cards \in InitialStores
    /\ stub \in Stubs
    /\ q_pc = "idle"
    /\ q_count = 0
    /\ q_req = NoDetailedReq
    /\ q_log = NoLog
    /\ q_invoked = FALSE
    /\ q_results = <<>>
    /\ q_idx = 0
    /\ q_saved = 0
    /\ q_upserts = <<>>
    /\ q_response = NoResponse
    /\ q_cache = {}
    /\ cards_before = {}
    /\ q_prev = NoPrev

NextRequest ==
    \/ ScrapeAndSaveBegin
    \/ ScrapeAndSaveDetails
    \/ ScrapeAndSaveMain
    \/ ScrapeAndSaveCard
    \/ ScrapeAndSaveEnd
    \/ RefreshBegin
    \/ RefreshMain
    \/ RefreshCard
    \/ RefreshEnd

SpecRequest == InitRequest /\ [][NextRequest]_vars

-----------------------------------------------------------------------------
(* Specification SpecUpsert: NumWriters calls of _save_card_to_db whose    *)
(* statements interleave in any order.                                     *)

InitUpsert ==
    /\ LogIdle /\ RunIdle /\ FetchIdle /\ EbayIdle /\ CacheIdle
    /\ PersistIdle /\ PriceIdle /\ BatchIdle /\ PageIdle /\ SemIdle /\ ExtractIdle
    /\ RequestIdle /\ WriterIdle /\ MainIdle /\ GatherIdle
    /\ cards \in InitialStores

NextUpsert ==
    \/ \E w \in Writers : UpsertGet(w)
    \/ \E w \in Writers : UpsertCreate(w)
    \/ \E w \in Writers : UpsertUpdate(w)

SpecUpsert == InitUpsert /\ [][NextUpsert]_vars

-----------------------------------------------------------------------------
(* C1: once a ScrapeLog's status is completed, partial or failed, no later *)
(* operation changes its status (complete() and fail() are together        *)
(* applied at most once to each log).                                      *)
C1_TerminalStatusFrozen ==
    [][\A r \in Runs :
          scrape_log[r].status \in Terminal =>
              scrape_log'[r].status = scrape_log[r].status]_vars

(* C3: in a scrape_and_save or scrape_all_sets run in which at least one   *)
(* upsert fails and at least one succeeds, the log is finalized with       *)
(* total_cards_failed = the number of failed upserts and status partial.   *)
C3_PartialOnMixedRun ==
    \A r \in Runs :
        (/\ pc[r] = "done"
         /\ kind[r] \in {"scrape", "bulk"}
         /\ saved[r] >= 1
         /\ upserts[r] - saved[r] >= 1)
        => /\ scrape_log[r].status = PARTIAL
           /\ scrape_log[r].total_cards_failed = upserts[r] - saved[r]

(* C4: when a run is finalized by complete, total_cards_attempted is the   *)
(* number of cards the run tried to upsert and total_cards_updated the     *)
(* number of those upserts that returned a stored row.                     *)
C4_CountsMatchUpserts ==
    \A r \in Runs :
        (pc[r] = "done" /\ scrape_log[r].status \in {COMPLETED, PARTIAL})
        => /\ scrape_log[r].total_cards_attempted = upserts[r]
           /\ scrape_log[r].total_cards_updated = saved[r]

(* C5: in scrape_and_save and refresh, if scraper.main raises, the run's   *)
(* log ends failed with an error message recorded, the run upserts no      *)
(* card, and the caller receives 500.                                      *)
C5_ScraperErrorFailsRun ==
    \A r \in Runs :
        (main_raised[r] /\ kind[r] \in {"scrape", "refresh"})
        => /\ pc[r] = "done"
           /\ scrape_log[r].status = FAILED
           /\ scrape_log[r].error_message # None
           /\ upserts[r] = 0
           /\ response[r] = HTTP_500_INTERNAL_SERVER_ERROR

\* scraper.main has raised in a scrape_and_save request and in a refresh request.
C5_Witness ==
    \E r1, r2 \in Runs :
        /\ kind[r1] = "scrape" /\ main_raised[r1] /\ pc[r1] = "done"
        /\ kind[r2] = "refresh" /\ main_raised[r2] /\ pc[r2] = "done"

C7_MarketplaceQuota == win_gotos <= MAX_REQUESTS_TCG

(* C9: every task that requests a rate-limit token eventually obtains it   *)
(* and proceeds to its navigation, whatever the other callers do.          *)
C9_TokenEventuallyGranted ==
    \A t \in Fetches :
        (fpc[t] \in {"limiter", "limiter_sleep"}) ~> (fpc[t] = "goto")

\* Every fetch of the batch has asked for a token at the same time and one
\* of them has already got it.
C9_Witness ==
    /\ \E t \in Fetches : fpc[t] = "goto"
    /\ \A t \in Fetches : fpc[t] \in {"limiter_sleep", "goto"}

(* C8: the number of eBay requests issued by get_ebay_psa10_price_async    *)
(* within any rolling 60-second window never exceeds MAX_REQUESTS_EBAY.    *)
C8_AuctionQuota == eb_win_calls <= MAX_REQUESTS_EBAY

(* C10: get(key) returns the value last written by set(key, v) while less  *)
(* than 24 hours have passed since that write, and returns absent once 24  *)
(* hours or more have passed, the expired entry being removed by that get. *)
C10_GetHonoursTtl ==
    lastOp.op = "get" =>
        LET w == written[lastOp.key] IN
        IF w # NoEntry /\ cache_clock - w.timestamp < CACHE_HOURS
        THEN lastOp.result = w.data
        ELSE /\ lastOp.result = None
             /\ price_cache[lastOp.key] = NoEntry

\* A get made exactly 24 hours after the write found the entry expired.
C10_Witness ==
    /\ lastOp.op = "get"
    /\ written[lastOp.key] # NoEntry
    /\ cache_clock - written[lastOp.key].timestamp = CACHE_HOURS
    /\ lastOp.result = None

ElementAt(ps, pos) ==
    CHOOSE v \in {ps[i] : i \in DOMAIN ps} :
        /\ Cardinality({i \in DOMAIN ps : ps[i] < v}) <= pos
        /\ pos < Cardinality({i \in DOMAIN ps : ps[i] <= v})

\* The prices of ps within [Q1 - 1.5*IQR, Q3 + 1.5*IQR].
WithinFences(ps) ==
    LET Q1 == ElementAt(ps, Len(ps) \div 4)
        Q3 == ElementAt(ps, (3 * Len(ps)) \div 4)
        IQR == fl(Q3 - Q1, 1)
        lo == fl(Q1 - fl(3 * IQR, 2), 1)
        hi == fl(Q3 + fl(3 * IQR, 2), 1)
    IN  SelectSeq(ps, LAMBDA p : lo <= p /\ p <= hi)

(* C18: calculate_average_price returns absent for an empty list, the mean *)
(* for 1 or 2 prices, and for 3 or more the mean of the prices within      *)
(* [Q1 - 1.5*IQR, Q3 + 1.5*IQR], Q1 and Q3 being the elements at positions *)
(* len/4 and 3*len/4 of the sorted list; [10, 10, 10, 10, 1000] gives 10   *)
(* and [5, 7] gives 6.                                                     *)
C18_EstimateAsSpecified ==
    est_done =>
        /\ prices = <<>> => estimate = Absent
        /\ Len(prices) \in {1, 2} => estimate = Present(fl_mean(prices))
        /\ Len(prices) >= 3 => estimate = Present(fl_mean(WithinFences(prices)))
        /\ prices = <<10, 10, 10, 10, 1000>> => estimate = Present(10)
        /\ prices = <<5, 7>> => estimate = Present(6)

\* The outlier 1000 was left out of the mean of [10, 10, 10, 10, 1000].
C18_Witness ==
    /\ est_done
    /\ prices = <<10, 10, 10, 10, 1000>>
    /\ estimate = Present(10)

(* C19: for every non-empty list of prices the estimate is present and     *)
(* lies between the smallest and the largest input price.                  *)
C19_EstimateWithinRange ==
    (est_done /\ prices # <<>>) =>
        /\ estimate.present
        /\ \E i \in DOMAIN prices : prices[i] <= estimate.value
        /\ \E i \in DOMAIN prices : estimate.value <= prices[i]

(* C19 as amended: for every non-empty list of prices the estimate is      *)
(* present; for 3 or more prices the filtered sample is never empty (it    *)
(* holds Q1 and Q3) and the estimate is its floating-point mean.           *)
C19_EstimateFromNonEmptySample ==
    (est_done /\ prices # <<>>) =>
        /\ estimate.present
        /\ Len(prices) >= 3 =>
            /\ in_bounds(q1_of(prices), lower_bound(prices), upper_bound(prices))
            /\ in_bounds(q3_of(prices), lower_bound(prices), upper_bound(prices))
            /\ filtered_prices(prices) # <<>>
            /\ estimate.value = fl_mean(filtered_prices(prices))

\* An estimate was computed from a sample out of which the filter had
\* taken some price.
C19_Witness ==
    /\ est_done
    /\ Len(prices) >= 3
    /\ estimate.present
    /\ Len(filtered_prices(prices)) < Len(prices)

(* C12: once an auction estimate for a card name, set name and language    *)
(* has been fetched, a later need of the estimate for the same triple      *)
(* issues no second auction HTTP request.                                  *)
C12_NoSecondRequest ==
    \A i, j \in DOMAIN ebay_calls :
        (/\ i < j
         /\ ebay_calls[i].card.card_name = ebay_calls[j].card.card_name
         /\ ebay_calls[i].card.set_name = ebay_calls[j].card.set_name
         /\ ebay_calls[i].card.language = ebay_calls[j].card.language
         /\ ebay_calls[i].estimate.present)
            => ~ebay_calls[j].requested

(* C20: get_ebay_psa10_price_async never raises to its caller: a non-200   *)
(* response, a network error or timeout, or a parsing failure (a card with *)
(* an empty name included) each give an absent estimate, and the           *)
(* reconciliation of the remaining listings continues.                     *)
C20_EbayNeverRaises ==
    /\ \A i \in DOMAIN ebay_calls :
        /\ ebay_calls[i].raised = NoException
        /\ (\/ ebay_calls[i].response.kind # "response"
            \/ ebay_calls[i].response.status # HTTP_OK
            \/ ebay_calls[i].card.card_name = <<>>) => ebay_calls[i].estimate = Absent
    /\ b_pc = "done" => /\ Len(ebay_calls) = Len(listings)
                        /\ Len(all_price_data) = Len(listings)

\* A batch ended in which a request failed and a later listing still got
\* its estimate.
C20_Witness ==
    /\ b_pc = "done"
    /\ \E i, j \in DOMAIN ebay_calls :
        /\ i < j
        /\ ebay_calls[i].response.kind # "response"
        /\ ebay_calls[j].estimate.present
        /\ all_price_data[j].psa_10_price.present

\* The rarity indexes of the language of the fetch.
RaritiesOfFetch == 1..Len(RARITY_MAPPING[p_language])

(* C13: for each rarity the fetcher makes at most 3 navigation attempts;   *)
(* when all attempts for a rarity fail the fetch does not raise and does   *)
(* not stop: every remaining rarity of the language is still attempted and *)
(* the listings of the rarities that succeeded are returned.               *)
C13_RetriesThenNextRarity ==
    /\ \A r \in RarityIndexes : gotos[r] <= MAX_RETRIES
    /\ (\E r \in RarityIndexes : rarity_result[r] = "failed") => p_pc # "raised"
    /\ p_pc = "returned" =>
        /\ \A r \in RaritiesOfFetch : gotos[r] >= 1
        /\ \A r \in RaritiesOfFetch :
               rarity_result[r] = "failed" => gotos[r] = MAX_RETRIES
        /\ all_card_data = {r \in RaritiesOfFetch : rarity_result[r] = "listings"}

\* A fetch returned the listings of a rarity that came after one whose
\* three attempts all failed.
C13_Witness ==
    /\ p_pc = "returned"
    /\ \E r1, r2 \in RaritiesOfFetch :
        /\ r1 < r2
        /\ rarity_result[r1] = "failed"
        /\ gotos[r1] = MAX_RETRIES
        /\ r2 \in all_card_data

(* C14: when the wait for the results / no-results element times out, the  *)
(* fetcher retries that rarity's page load (up to 3 attempts in total)     *)
(* instead of accepting an empty result after the first timeout.           *)
C14_SelectorTimeoutRetried ==
    \A r \in RarityIndexes :
        (rarity_result[r] = "selector_timeout" /\ (p_rarity > r \/ p_pc \in {"close", "returned"}))
            => gotos[r] = MAX_RETRIES

(* C15: every page opened by fetch_tcgplayer_data is closed and its        *)
(* concurrency-semaphore permit is returned on every exit path of the      *)
(* fetch, an exception raised after the page was opened included.          *)
C15_PageClosedOnExit ==
    p_pc \in {"returned", "raised"} =>
        /\ page_state # "open"
        /\ playwright_sem = CONCURRENCY

(* C16: at every moment at most CONCURRENCY invocations of                 *)
(* fetch_tcgplayer_data are inside their page-holding section.             *)
C16_AtMostConcurrencyInside ==
    Cardinality({t \in Invocations : section[t] = "inside"}) <= CONCURRENCY

\* CONCURRENCY invocations hold a page while another one waits for a permit.
C16_Witness ==
    /\ Cardinality({t \in Invocations : section[t] = "inside"}) = CONCURRENCY
    /\ \E t \in Invocations : section[t] = "before"
    /\ playwright_sem = 0

(* C17: every listing returned by the marketplace fetcher has a price p    *)
(* with 0 < p <= 100000, a non-empty product_id extracted from its detail  *)
(* link, a rarity of the query language's rarity list and, when the query  *)
(* name is non-empty, a title containing every whitespace-separated term   *)
(* of the query name case-insensitively.                                   *)
C17_ListingIsValid ==
    (extracted /\ card_data.present) =>
        /\ card_data.tcgplayer_price.kind = "number"
        /\ card_data.tcgplayer_price.cents > 0
        /\ card_data.tcgplayer_price.cents <= 100 * MAX_PRICE
        /\ card_data.product_id # <<>>
        /\ card_data.product_id = extract_product_id(card_element.product_link)
        /\ \E i \in DOMAIN RARITY_MAPPING[card_query.language] :
               RARITY_MAPPING[card_query.language][i] = card_data.rarity
        /\ card_query.name # <<>> =>
               \A i \in DOMAIN split(card_query.name) :
                   contains(lower(card_element.title), lower(split(card_query.name)[i]))


(* C21: reconciliation emits exactly one card per marketplace listing, in  *)
(* the order of the listings: a listing whose auction estimate is absent   *)
(* is emitted with psa_10_price, price_delta and profit_potential all      *)
(* null, a listing whose estimate is present with all three set.           *)
C21_OneCardPerListing ==
    b_pc = "done" =>
        /\ Len(all_price_data) = Len(listings)
        /\ \A i \in DOMAIN all_price_data :
            /\ all_price_data[i].card = listings[i]
            /\ ebay_calls[i].estimate.present =>
                   /\ all_price_data[i].psa_10_price.present
                   /\ all_price_data[i].price_delta.present
                   /\ all_price_data[i].profit_potential.present
            /\ ~ebay_calls[i].estimate.present =>
                   /\ all_price_data[i].psa_10_price = NoField
                   /\ all_price_data[i].price_delta = NoField
                   /\ all_price_data[i].profit_potential = NoPercent


\* The row of the key of an upsert holds the values of its dict.
stored_as(u) ==
    /\ Cardinality(matching(cards, u.card_dict)) = 1
    /\ \A row \in matching(cards, u.card_dict) :
        /\ row.tcgplayer_price = Present(u.card_dict.tcgplayer_price)
        /\ row.psa_10_price = Present(u.card_dict.psa_10_price)
        /\ row.product_id = u.card_dict.product_id

\* No later upsert of the request wrote the row of the key of upsert i.
last_of_key(i) ==
    \A j \in DOMAIN q_upserts :
        (j > i /\ key_of(q_upserts[j].card_dict) = key_of(q_upserts[i].card_dict))
            => ~q_upserts[j].returned

(* C22: for every card, stored or returned by the pipeline,                *)
(* profit_potential is null exactly when price_delta is null or the        *)
(* market price is null or 0; otherwise price_delta is the graded price    *)
(* minus the market price and profit_potential is                          *)
(* (price_delta / market price) * 100.                                     *)
C22_ProfitFromDelta ==
    /\ \A row \in cards :
        /\ ~profit_potential(row).present <=>
              \/ ~price_delta(row).present
              \/ ~row.tcgplayer_price.present
              \/ row.tcgplayer_price.value = 0
        /\ profit_potential(row).present =>
              /\ price_delta(row).value =
                    row.psa_10_price.value - row.tcgplayer_price.value
              /\ profit_potential(row).value.num * row.tcgplayer_price.value =
                    100 * price_delta(row).value * profit_potential(row).value.den
    /\ \A i \in DOMAIN q_results :
        /\ ~q_results[i].profit_potential.present <=>
              \/ ~q_results[i].price_delta.present
              \/ q_results[i].card.tcgplayer_price = 0
        /\ q_results[i].profit_potential.present =>
              /\ q_results[i].psa_10_price.present
              /\ q_results[i].price_delta.value =
                    fl(q_results[i].psa_10_price.value
                       - q_results[i].card.tcgplayer_price, 1)
              /\ q_results[i].profit_potential.value =
                    percent(q_results[i].price_delta.value,
                            q_results[i].card.tcgplayer_price)

\* The table holds a row the request wrote whose percentage is set, a row
\* without delta and a row whose price is 0, and the pipeline returned a
\* card with its percentage.
C22_Witness ==
    /\ \E row \in cards : profit_potential(row).present /\ row \notin cards_before
    /\ \E row \in cards : ~price_delta(row).present
    /\ \E row \in cards : price_delta(row).present /\ row.tcgplayer_price.value = 0
    /\ \E i \in DOMAIN q_results : q_results[i].profit_potential.present

(* C23: two upserts with the same (card_name, set_name, language, rarity)  *)
(* key and different price payloads, one after the other, leave exactly    *)
(* one row for the key, holding the values of the second payload.          *)
C23_SecondPayloadStored ==
    \A i \in DOMAIN q_upserts :
        /\ (~q_upserts[i].fault /\ ~q_upserts[i].clash) => q_upserts[i].returned
        /\ (q_upserts[i].returned /\ last_of_key(i)) => stored_as(q_upserts[i])

\* Two upserts of one key with different prices were made, one after the
\* other, and both returned the row.
C23_Witness ==
    /\ q_pc = "done"
    /\ \E i, j \in DOMAIN q_upserts :
        /\ i < j
        /\ key_of(q_upserts[i].card_dict) = key_of(q_upserts[j].card_dict)
        /\ q_upserts[i].card_dict.tcgplayer_price # q_upserts[j].card_dict.tcgplayer_price
        /\ q_upserts[i].returned
        /\ q_upserts[j].returned

(* C24: after any sequence of upserts, interleaved ones included, the      *)
(* table holds at most one row per (card_name, set_name, language, rarity) *)
(* tuple and no two rows share a non-null product_id; an upsert that would *)
(* break either rule fails and changes no stored row.                      *)
C24_StoreConstraints ==
    /\ \A a, b \in cards :
        a # b => /\ a.id # b.id
                 /\ key_of(a) # key_of(b)
                 /\ a.product_id # None => a.product_id # b.product_id
    /\ \A w \in Writers :
        (w_pc[w] = "done" /\ w_outcome[w].raised = "IntegrityError")
            => ~w_outcome[w].returned /\ w_outcome[w].kept

\* A writer lost the race of the INSERT to another writer of its key, and
\* its UPDATE was then refused for the product_id of a third row.
C24_Witness ==
    \E w, v \in Writers :
        /\ w # v
        /\ w_pc[w] = "done" /\ w_pc[v] = "done"
        /\ w_outcome[w].raced
        /\ w_outcome[w].raised = "IntegrityError"
        /\ w_outcome[v].returned
        /\ key_of(w_card_dict[w]) = key_of(w_card_dict[v])

(* C25: a failed upsert of one record (constraint violation or connection  *)
(* error) does not raise out of _save_card_to_db and does not stop the     *)
(* batch: every other record of the run is still upserted, and the rows    *)
(* written by its earlier successful upserts are kept.                     *)
C25_FailedUpsertSkipped ==
    /\ \A i \in DOMAIN q_upserts :
        /\ ~q_upserts[i].returned => q_upserts[i].kept
        /\ (q_upserts[i].returned /\ last_of_key(i)) =>
              \E row \in cards : key_of(row) = key_of(q_upserts[i].card_dict)
    /\ (q_pc = "done" /\ q_req.kind = "scrape" /\ q_results # <<>>) =>
        /\ Len(q_upserts) = Len(q_results)
        /\ \A i \in DOMAIN q_upserts :
              q_upserts[i].card_dict = process_card_data(q_results[i])
        /\ ~q_response.crashed
        /\ q_response.message \in {"Successfully processed",
                                   "Failed to save any card data"}

\* A run whose first upsert failed and whose second one wrote its row.
C25_Witness ==
    /\ q_pc = "done"
    /\ q_req.kind = "scrape"
    /\ Len(q_upserts) = 2
    /\ ~q_upserts[1].returned
    /\ q_upserts[2].returned
    /\ q_response.status = HTTP_200_OK

(* C26: scrape_and_save for "Mew ex", set_name "Pokemon Card 151",         *)
(* language "Japanese", the marketplace fetcher answering one listing      *)
(* (price 50, "Ultra Rare", product_id "123") and the auction fetcher 80,  *)
(* is answered 200 with 1 processed card and leaves exactly one stored     *)
(* card, with price_delta 30 and profit_potential 60.                      *)
C26_MewExScenario ==
    (/\ q_pc = "done"
     /\ q_count = 1
     /\ q_req.kind = "scrape"
     /\ q_req.searchQuery = MewEx
     /\ q_req.set_name = "Pokemon Card 151"
     /\ q_req.language = "Japanese"
     /\ stub = [raises |-> FALSE,
                listings |-> <<stub_listing("Ultra Rare", 50, "123")>>,
                estimate |-> Present(80)]
     /\ cards_before = {})
        => /\ q_response = success_response(1)
           /\ Cardinality(cards) = 1
           /\ \A row \in cards :
                 /\ price_delta(row) = Present(30)
                 /\ profit_potential(row) = Present([num |-> 60, den |-> 1])

(* C27: a scrape_and_save request whose searchQuery is missing or blank is *)
(* answered 400 before any fetch: scraper.main is not called and no stored *)
(* card is created or changed.                                             *)
C27_BlankQueryRejected ==
    (q_req.kind = "scrape" /\ strip(q_req.raw) = <<>>) =>
        /\ q_pc = "done"
        /\ q_response = error_response(HTTP_400_BAD_REQUEST,
                                       "Search query is required", <<>>)
        /\ ~q_invoked
        /\ cards = cards_before

\* A request with a blank searchQuery was answered, the table holding rows.
C27_Witness ==
    /\ q_pc = "done"
    /\ q_req.kind = "scrape"
    /\ q_req.raw = <<" ">>
    /\ cards # {}

(* C28: when the pipeline returns no card for a scrape_and_save request,   *)
(* the response is 404 ("No data found for <query>"), the ScrapeLog ends   *)
(* failed, no stored card is created or changed and the response is not    *)
(* cached, so that an identical request made next runs the pipeline again. *)
C28_NoDataNotCached ==
    /\ (q_pc = "done" /\ q_req.kind = "scrape" /\ q_invoked
        /\ ~stub.raises /\ stub.listings = <<>>) =>
          /\ q_response = error_response(HTTP_404_NOT_FOUND, "No data found for",
                                         q_req.searchQuery)
          /\ q_log.status = FAILED
          /\ cards = cards_before
          /\ ~\E e \in q_cache :
                 e.key = scrape_cache_key(q_req.searchQuery, q_req.set_name,
                                          q_req.language)
    /\ (/\ q_pc = "done"
        /\ q_req.kind = "scrape"
        /\ q_prev.req.kind = "scrape"
        /\ q_prev.status = HTTP_404_NOT_FOUND
        /\ q_prev.req.searchQuery = q_req.searchQuery
        /\ q_prev.req.set_name = q_req.set_name
        /\ q_prev.req.language = q_req.language) => q_invoked

\* A request answered 404 was made again and ran the pipeline again.
C28_Witness ==
    /\ q_pc = "done"
    /\ q_req.kind = "scrape"
    /\ q_prev.req.kind = "scrape"
    /\ q_prev.status = HTTP_404_NOT_FOUND
    /\ q_prev.req.searchQuery = q_req.searchQuery
    /\ q_prev.req.set_name = q_req.set_name
    /\ q_invoked
    /\ q_response.status = HTTP_404_NOT_FOUND

(* C29: scrape_all_sets answers {message, log_id} before the bulk run has  *)
(* finished: when the response is produced some set task is still to end   *)
(* and the ScrapeLog of the run has not been completed.                    *)
C29_ResponseBeforeRunEnds ==
    [][\A r \in Runs :
          (kind'[r] = "bulk" /\ response[r] = 0 /\ response'[r] # 0)
              => \E s \in Sets : task'[r][s].pc # "done"]_vars

(* C30: a refresh for a card id that does not exist is answered 404        *)
(* ("Card not found") and one for a stored card without product_id 400; in *)
(* both cases no ScrapeLog is created, scraper.main is not called and no   *)
(* stored card changes.                                                    *)
C30_RefreshRejected ==
    (q_pc = "done" /\ q_req.kind = "refresh") =>
        /\ (~\E row \in cards_before : q_req.pk.wellformed /\ row.id = q_req.pk.id)
              => /\ q_response = error_response(HTTP_404_NOT_FOUND,
                                                "Card not found", <<>>)
                 /\ q_log = NoLog
                 /\ ~q_invoked
                 /\ cards = cards_before
        /\ (\E row \in cards_before : /\ q_req.pk.wellformed
                                     /\ row.id = q_req.pk.id
                                     /\ row.product_id = None)
              => /\ q_response.status = HTTP_400_BAD_REQUEST
                 /\ q_log = NoLog
                 /\ ~q_invoked
                 /\ cards = cards_before


(* C33: after a successful upsert every non-key field of the stored row    *)
(* equals the field of the reconciled record: a record whose graded price  *)
(* is null is stored with a null psa_10_price, so that the price_delta and *)
(* profit_potential of the stored card are null, whatever graded price the *)
(* row held before.                                                        *)
C33_StoredAsReconciled ==
    \A i \in DOMAIN q_upserts :
        (q_upserts[i].returned /\ last_of_key(i)) =>
            \A row \in matching(cards, q_upserts[i].card_dict) :
                /\ row.product_id = q_upserts[i].record.card.product_id
                /\ row.tcgplayer_price = Present(q_upserts[i].record.card.tcgplayer_price)
                /\ row.psa_10_price = q_upserts[i].record.psa_10_price
                /\ ~q_upserts[i].record.psa_10_price.present =>
                       /\ ~price_delta(row).present
                       /\ ~profit_potential(row).present

(* C34: every invocation of scrape_and_save creates exactly one ScrapeLog, *)
(* in_progress, before the input is validated; an invocation rejected by   *)
(* validation (blank search term or unknown set_name) leaves that          *)
(* ScrapeLog with status failed.                                           *)
C34_LogBeforeValidation ==
    (q_req.kind = "scrape" /\ q_pc # "idle") =>
        /\ q_log # NoLog
        /\ (q_pc = "done" /\ q_response.status = HTTP_400_BAD_REQUEST)
              => q_log.status = FAILED

(* C37: a refresh of stored card k answered 200 has updated card k itself: *)
(* the row returned has the id, the key tuple and the product_id of card   *)
(* k, whatever the marketplace listed, and no other stored row was created *)
(* or changed.                                                             *)
C37_RefreshUpdatesItsCard ==
    (q_pc = "done" /\ q_req.kind = "refresh" /\ q_response.status = HTTP_200_OK) =>
        /\ Len(q_upserts) = 1
        /\ q_upserts[1].returned
        /\ \A row \in matching(cards, q_upserts[1].card_dict) :
              /\ row.id = q_req.card.id
              /\ key_of(row) = key_of(q_req.card)
              /\ row.product_id = q_req.card.product_id
        /\ {row.id : row \in cards} = {row.id : row \in cards_before}
        /\ \A row \in cards : row.id # q_req.card.id => row \in cards_before


(* C31: after a scrape_and_save request has succeeded, an identical        *)
(* request (same searchQuery, set_name and language) made less than 24     *)
(* hours later is answered with the same response without running the      *)
(* scraper, and one made after the 24 hours runs the pipeline again.       *)
C31_CachedForADay ==
    (/\ q_pc = "done"
     /\ q_req.kind = "scrape"
     /\ q_prev.req.kind = "scrape"
     /\ q_prev.invoked
     /\ q_prev.status = HTTP_200_OK
     /\ q_prev.req.searchQuery = q_req.searchQuery
     /\ q_prev.req.set_name = q_req.set_name
     /\ q_prev.req.language = q_req.language) =>
        /\ q_prev.gap < 24 * 60 * 60 =>
              (~q_invoked /\ q_response = q_prev.response)
        /\ q_prev.gap > 24 * 60 * 60 => q_invoked


(* C36: at every moment at most MAX_CONCURRENT_REQUESTS calls of           *)
(* scraper.main started by the orchestrator are in progress, counting      *)
(* together all concurrent scrape_and_save and refresh requests and all    *)
(* set tasks of a scrape_all_sets run.                                     *)
C36_AtMostThreePipelines ==
    Cardinality(mains_in_progress) <= MAX_CONCURRENT_REQUESTS


(* C35: under any interleaving of concurrent runs sharing price_cache      *)
(* (each loads the cache at start, calls get and set, and saves at end),   *)
(* an entry written by set(key, v) stays readable by get(key) until its    *)
(* TTL expires or a later set(key, ...) overwrites it, the value of the    *)
(* later set being the one kept.                                           *)
C35_SharedEntriesStay ==
    (/\ lastOp.op = "get"
     /\ written[lastOp.key] # NoEntry
     /\ is_fresh(cache_clock, written[lastOp.key].timestamp)) =>
        lastOp.result = written[lastOp.key].data


\* The listings of the first n queries in the order of the batch, those of
\* a query whose fetch raised left out.
RECURSIVE fetched_upto(_)
fetched_upto(n) ==
    IF n = 0 THEN <<>>
    ELSE fetched_upto(n - 1)
         \o (IF g_fetch[n].raised THEN <<>> ELSE g_fetch[n].listings)

\* The names of the first n queries whose fetch raised.
RECURSIVE raised_upto(_)
raised_upto(n) ==
    IF n = 0 THEN <<>>
    ELSE raised_upto(n - 1)
         \o (IF g_fetch[n].raised THEN <<card_details_list[n].name>> ELSE <<>>)

(* C32: in process_card_batch the fetches of a batch end in any order; a   *)
(* query whose fetch raises contributes no listing and does not prevent    *)
(* the listings of every other query from being reconciled and returned,   *)
(* and each fetch result is attributed to the query at the same position,  *)
(* whatever the order in which the fetches ended.                          *)
C32_GatherByPosition ==
    g_pc = "done" =>
        /\ \A i \in DOMAIN card_details_list :
              tcg_results[i] = task_result(g_fetch[i])
        /\ g_logged = raised_upto(Len(card_details_list))
        /\ [k \in DOMAIN ebay_calls |-> ebay_calls[k].card]
              = fetched_upto(Len(card_details_list))
        /\ all_price_data
              = [k \in DOMAIN ebay_calls |->
                    reconciled(ebay_calls[k].card, ebay_calls[k].estimate)]

\* The second fetch ended first and returned listings, the first fetch
\* raised, and the listings of the second query were returned.
C32_Witness ==
    /\ g_pc = "done"
    /\ Len(g_order) >= 2
    /\ g_order[1] = 2
    /\ g_fetch[1].raised
    /\ g_fetch[2].listings # <<>>
    /\ all_price_data # <<>>
    /\ \E k \in DOMAIN all_price_data : all_price_data[k].psa_10_price.present

====
